---- MODULE Spec2Model ----
(***************************************************************************)
(* RTCM v3 message decoders of src/c/src/decode.c.                         *)
(*                                                                         *)
(* Every decoder is a function from a byte buffer and the caller's record  *)
(* to a status and the record as the call leaves it.  A buffer is its bit  *)
(* stream (most significant bit of byte 0 first): an explicit prefix       *)
(* followed by one fill bit repeated to the end of the frame.              *)
(*                                                                         *)
(* C doubles are kept exact as integers in the unit of their scale factor: *)
(*   rough_range_ms            1/1024 ms                                   *)
(*   pseudorange_ms, carrier_phase_ms   the pair                           *)
(*       [rough |-> 1/1024 ms, fine |-> the fine field's own unit]         *)
(*       standing for rough/1024 + fine * scale                            *)
(*   lock_time_s               1/1000 s                                    *)
(*   cnr (MSM)                 1/16 dB-Hz                                  *)
(*   range_rate_m_s            1/10000 m/s                                 *)
(*   L*_cpb_meter (1230)       0.02 m                                      *)
(***************************************************************************)
EXTENDS Integers, Sequences, FiniteSets, TLC

VARIABLES buff, call, rc, bit, oob, msm_msg, obs_msg, msg_1230, msg_4062,
          msg_1007, msg_1008, msg_1033, lock_ind, lock_time

\* the records of the antenna and receiver descriptors
str_vars == <<msg_1007, msg_1008, msg_1033>>

\* the argument and the result of a lock time function
lock_vars == <<lock_ind, lock_time>>

vars == <<buff, call, rc, bit, oob, msm_msg, obs_msg, msg_1230, msg_4062,
          str_vars, lock_vars>>

----------------------------------------------------------------------------
(* Status codes and constants of the headers.                              *)

RC_OK == "RC_OK"
RC_MESSAGE_TYPE_MISMATCH == "RC_MESSAGE_TYPE_MISMATCH"
RC_INVALID_MESSAGE == "RC_INVALID_MESSAGE"

RTCM_MAX_TOW_MS == 604799999
RTCM_GLO_MAX_TOW_MS == 86400999
C_2P30 == 1073741824
BDS_SECOND_TO_GPS_SECOND == 14

MSM_SATELLITE_MASK_SIZE == 64
MSM_SIGNAL_MASK_SIZE == 32
MSM_MAX_CELLS == 64

MSM_UNKNOWN == 0
MSM4 == 4
MSM5 == 5
MSM6 == 6
MSM7 == 7

MSM_ROUGH_RANGE_INVALID == 255
MSM_ROUGH_RATE_INVALID == -8192
MSM_PR_INVALID == -16384
MSM_PR_EXT_INVALID == -524288
MSM_CP_INVALID == -2097152
MSM_CP_EXT_INVALID == -8388608
MSM_DOP_INVALID == -16384
MSM_GLO_FCN_UNKNOWN == 255

----------------------------------------------------------------------------
(* Arithmetic helpers.                                                     *)

Pow2Tab ==
    <<1, 2, 4, 8, 16, 32, 64, 128, 256, 512, 1024, 2048, 4096, 8192, 16384,
      32768, 65536, 131072, 262144, 524288, 1048576, 2097152, 4194304,
      8388608, 16777216, 33554432, 67108864, 134217728, 268435456,
      536870912, 1073741824>>

Pow2(n) ==
    Pow2Tab[n + 1]

U8(x) ==
    x % 256

U16(x) ==
    x % 65536

----------------------------------------------------------------------------
(* Bit reader (rtcm3/bits.h): big-endian, MSB first, stateless.            *)

getbit(b, pos) ==
    IF pos < Len(b.bits) THEN b.bits[pos + 1] ELSE b.pad

\* the field's leading half, shifted left by the length of the rest, plus
\* the rest
RECURSIVE rtcm_getbitu(_, _, _)
rtcm_getbitu(b, pos, len) ==
    IF len = 0
    THEN 0
    ELSE IF len = 1
    THEN getbit(b, pos)
    ELSE rtcm_getbitu(b, pos, len \div 2) * Pow2(len - len \div 2)
         + rtcm_getbitu(b, pos + len \div 2, len - len \div 2)

rtcm_getbits(b, pos, len) ==
    LET u == rtcm_getbitu(b, pos, len)
    IN  IF len = 0 \/ getbit(b, pos) = 0 THEN u ELSE u - Pow2(len)

rtcm_getbitsl(b, pos, len) ==
    rtcm_getbits(b, pos, len)

----------------------------------------------------------------------------
(* Message number classification (rtcm3/msm_utils.h).                      *)

RTCM_CONSTELLATION_GPS == "GPS"
RTCM_CONSTELLATION_GLO == "GLO"
RTCM_CONSTELLATION_GAL == "GAL"
RTCM_CONSTELLATION_SBAS == "SBAS"
RTCM_CONSTELLATION_QZS == "QZS"
RTCM_CONSTELLATION_BDS == "BDS"
RTCM_CONSTELLATION_IRN == "IRN"
RTCM_CONSTELLATION_INVALID == "INVALID"

to_constellation(msg_num) ==
    IF msg_num < 1071 THEN RTCM_CONSTELLATION_INVALID
    ELSE IF msg_num <= 1077 THEN RTCM_CONSTELLATION_GPS
    ELSE IF msg_num < 1081 THEN RTCM_CONSTELLATION_INVALID
    ELSE IF msg_num <= 1087 THEN RTCM_CONSTELLATION_GLO
    ELSE IF msg_num < 1091 THEN RTCM_CONSTELLATION_INVALID
    ELSE IF msg_num <= 1097 THEN RTCM_CONSTELLATION_GAL
    ELSE IF msg_num < 1101 THEN RTCM_CONSTELLATION_INVALID
    ELSE IF msg_num <= 1107 THEN RTCM_CONSTELLATION_SBAS
    ELSE IF msg_num < 1111 THEN RTCM_CONSTELLATION_INVALID
    ELSE IF msg_num <= 1117 THEN RTCM_CONSTELLATION_QZS
    ELSE IF msg_num < 1121 THEN RTCM_CONSTELLATION_INVALID
    ELSE IF msg_num <= 1127 THEN RTCM_CONSTELLATION_BDS
    ELSE IF msg_num < 1131 THEN RTCM_CONSTELLATION_INVALID
    ELSE IF msg_num <= 1137 THEN RTCM_CONSTELLATION_IRN
    ELSE RTCM_CONSTELLATION_INVALID

to_msm_type(msg_num) ==
    IF to_constellation(msg_num) = RTCM_CONSTELLATION_INVALID
    THEN MSM_UNKNOWN
    ELSE msg_num % 10

count_mask_values(mask_size, mask) ==
    Cardinality({i \in 0..(mask_size - 1) : mask[i] = 1})

----------------------------------------------------------------------------
(* Lock time tables.                                                       *)

\* a variant of from_lock_ind whose last segment runs on through 127
from_lock_ind_unsaturated(lock) ==
    IF lock < 24 THEN lock
    ELSE IF lock < 48 THEN 2 * lock - 24
    ELSE IF lock < 72 THEN 4 * lock - 120
    ELSE IF lock < 96 THEN 8 * lock - 408
    ELSE IF lock < 120 THEN 16 * lock - 1176
    ELSE IF lock < 128 THEN 32 * lock - 3096
    ELSE 937

\* in seconds
from_lock_ind(lock) ==
    IF lock < 24 THEN lock
    ELSE IF lock < 48 THEN 2 * lock - 24
    ELSE IF lock < 72 THEN 4 * lock - 120
    ELSE IF lock < 96 THEN 8 * lock - 408
    ELSE IF lock < 120 THEN 16 * lock - 1176
    ELSE IF lock < 127 THEN 32 * lock - 3096
    ELSE 937

\* a variant of rtcm3_decode_lock_time that keeps the MSB nibble
rtcm3_decode_lock_time_unmasked(lock8) ==
    IF lock8 = 0 THEN 0 ELSE 32 * Pow2((lock8 - 1) % 31)

\* the result in 1/1000 s: (32 << (lock - 1)) / 1000 seconds
rtcm3_decode_lock_time(lock8) ==
    LET lock == lock8 % 16
    IN  IF lock = 0 THEN 0 ELSE 32 * Pow2(lock - 1)

\* the multiplier and the subtrahend of the segment of lock, for lock < 704
msm_lock_ind_ext_segment(lock) ==
    IF lock < 96 THEN [mul |-> 2, sub |-> 64]
    ELSE IF lock < 128 THEN [mul |-> 4, sub |-> 256]
    ELSE IF lock < 160 THEN [mul |-> 8, sub |-> 768]
    ELSE IF lock < 192 THEN [mul |-> 16, sub |-> 2048]
    ELSE IF lock < 224 THEN [mul |-> 32, sub |-> 5120]
    ELSE IF lock < 256 THEN [mul |-> 64, sub |-> 12288]
    ELSE IF lock < 288 THEN [mul |-> 128, sub |-> 28672]
    ELSE IF lock < 320 THEN [mul |-> 256, sub |-> 65536]
    ELSE IF lock < 352 THEN [mul |-> 512, sub |-> 147456]
    ELSE IF lock < 384 THEN [mul |-> 1024, sub |-> 327680]
    ELSE IF lock < 416 THEN [mul |-> 2048, sub |-> 720896]
    ELSE IF lock < 448 THEN [mul |-> 4096, sub |-> 1572864]
    ELSE IF lock < 480 THEN [mul |-> 8192, sub |-> 3407872]
    ELSE IF lock < 512 THEN [mul |-> 16384, sub |-> 7340032]
    ELSE IF lock < 544 THEN [mul |-> 32768, sub |-> 15728640]
    ELSE IF lock < 576 THEN [mul |-> 65536, sub |-> 33554432]
    ELSE IF lock < 608 THEN [mul |-> 131072, sub |-> 71303168]
    ELSE IF lock < 640 THEN [mul |-> 262144, sub |-> 150994944]
    ELSE IF lock < 672 THEN [mul |-> 524288, sub |-> 318767104]
    ELSE [mul |-> 1048576, sub |-> 671088640]

\* a variant of from_msm_lock_ind_ext that saturates from 703
from_msm_lock_ind_ext_early(lock) ==
    IF lock < 64 THEN lock
    ELSE IF lock < 703
    THEN msm_lock_ind_ext_segment(lock).mul * lock
         - msm_lock_ind_ext_segment(lock).sub
    ELSE 67108864

\* in 1/1000 s
from_msm_lock_ind_ext(lock) ==
    IF lock < 64 THEN lock
    ELSE IF lock < 704
    THEN msm_lock_ind_ext_segment(lock).mul * lock
         - msm_lock_ind_ext_segment(lock).sub
    ELSE 67108864

----------------------------------------------------------------------------
(* MSM header.                                                             *)

\* a variant of normalize_bds2_tow that wraps to RTCM_MAX_TOW_MS instead of
\* RTCM_MAX_TOW_MS + 1
normalize_bds2_tow_short(tow_ms) ==
    IF tow_ms >= C_2P30 - BDS_SECOND_TO_GPS_SECOND * 1000
    THEN LET negative_tow_ms == C_2P30 - tow_ms
         IN  RTCM_MAX_TOW_MS - negative_tow_ms
    ELSE tow_ms

\* unwrap underflowed uint30 value to a wrapped tow_ms value
normalize_bds2_tow(tow_ms) ==
    IF tow_ms >= C_2P30 - BDS_SECOND_TO_GPS_SECOND * 1000
    THEN LET negative_tow_ms == C_2P30 - tow_ms
         IN  RTCM_MAX_TOW_MS + 1 - negative_tow_ms
    ELSE tow_ms

\* the epoch time field and the cursor after it; the cursor enters at 24
msm_header_tow(b, cons) ==
    IF cons = RTCM_CONSTELLATION_GLO
    THEN [tow_ms |-> rtcm_getbitu(b, 24 + 3, 27), bit |-> 24 + 3 + 27]
    ELSE IF cons = RTCM_CONSTELLATION_BDS
    THEN [tow_ms |-> normalize_bds2_tow(rtcm_getbitu(b, 24, 30)),
          bit |-> 24 + 30]
    ELSE [tow_ms |-> rtcm_getbitu(b, 24, 30), bit |-> 24 + 30]

\* the number of cell mask bits the header read takes: a uint8_t
msm_cell_mask_size(num_sats, num_sigs) ==
    U8(num_sats * num_sigs)

\* Returns the header as written, the cursor, and the indices at which
\* cell_mask was written beyond its MSM_MAX_CELLS entries.
rtcm3_read_msm_header(b, cons, header) ==
    LET t == msm_header_tow(b, cons)
        b0 == t.bit
        b1 == b0 + 1
        b2 == b1 + 3
        b3 == b2 + 7
        b4 == b3 + 2
        b5 == b4 + 2
        b6 == b5 + 1
        b7 == b6 + 3
        b8 == b7 + MSM_SATELLITE_MASK_SIZE
        b9 == b8 + MSM_SIGNAL_MASK_SIZE
        satellite_mask ==
            [i \in 0..(MSM_SATELLITE_MASK_SIZE - 1) |-> rtcm_getbitu(b, b7 + i, 1)]
        signal_mask ==
            [i \in 0..(MSM_SIGNAL_MASK_SIZE - 1) |-> rtcm_getbitu(b, b8 + i, 1)]
        num_sats == U8(count_mask_values(MSM_SATELLITE_MASK_SIZE, satellite_mask))
        num_sigs == U8(count_mask_values(MSM_SIGNAL_MASK_SIZE, signal_mask))
        cell_mask_size == msm_cell_mask_size(num_sats, num_sigs)
        cell_mask ==
            [i \in 0..(MSM_MAX_CELLS - 1) |->
                IF i < cell_mask_size
                THEN rtcm_getbitu(b, b9 + i, 1)
                ELSE header.cell_mask[i]]
    IN  [header |->
            [msg_num |-> rtcm_getbitu(b, 0, 12),
             stn_id |-> rtcm_getbitu(b, 12, 12),
             tow_ms |-> t.tow_ms,
             multiple |-> rtcm_getbitu(b, b0, 1),
             iods |-> rtcm_getbitu(b, b1, 3),
             reserved |-> rtcm_getbitu(b, b2, 7),
             steering |-> rtcm_getbitu(b, b3, 2),
             ext_clock |-> rtcm_getbitu(b, b4, 2),
             div_free |-> rtcm_getbitu(b, b5, 1),
             smooth |-> rtcm_getbitu(b, b6, 3),
             satellite_mask |-> satellite_mask,
             signal_mask |-> signal_mask,
             cell_mask |-> cell_mask],
         bit |-> U16(b9 + cell_mask_size),
         oob |-> {i \in MSM_MAX_CELLS..(cell_mask_size - 1) : TRUE}]

----------------------------------------------------------------------------
(* MSM satellite block.                                                    *)

\* a variant of msm_has_rate that takes MSM6 to carry range rates
msm_has_rate_ext(msm_type) ==
    msm_type = MSM5 \/ msm_type = MSM6 \/ msm_type = MSM7

msm_has_rate(msm_type) ==
    msm_type = MSM5 \/ msm_type = MSM7

\* A satellite-major variant: each satellite's fields lie together.
decode_msm_sat_data_interleaved(b, num_sats, msm_type, bit0) ==
    LET S == 0..(num_sats - 1)
        w == IF msm_has_rate(msm_type) THEN 36 ELSE 18
        o2 == IF msm_has_rate(msm_type) THEN 12 ELSE 8
        range_ms == [i \in S |-> rtcm_getbitu(b, bit0 + w * i, 8)]
        rough_range_valid == [i \in S |-> MSM_ROUGH_RANGE_INVALID # range_ms[i]]
    IN  [rough_range_ms |->
            [i \in S |->
                IF rough_range_valid[i]
                THEN 1024 * range_ms[i] + rtcm_getbitu(b, bit0 + w * i + o2, 10)
                ELSE 1024 * range_ms[i]],
         rough_range_valid |-> rough_range_valid,
         sat_info |->
            [i \in S |->
                IF msm_has_rate(msm_type)
                THEN rtcm_getbitu(b, bit0 + w * i + 8, 4)
                ELSE 0],
         sat_info_valid |-> [i \in S |-> msm_has_rate(msm_type)],
         rough_rate_m_s |->
            [i \in S |->
                IF msm_has_rate(msm_type)
                THEN rtcm_getbits(b, bit0 + w * i + 22, 14)
                ELSE 0],
         rough_rate_valid |->
            [i \in S |->
                IF msm_has_rate(msm_type)
                THEN MSM_ROUGH_RATE_INVALID # rtcm_getbits(b, bit0 + w * i + 22, 14)
                ELSE FALSE],
         bit |-> U16(bit0 + w * num_sats)]

\* rough_range_ms in 1/1024 ms; rough_rate_m_s in m/s
decode_msm_sat_data(b, num_sats, msm_type, bit0) ==
    LET S == 0..(num_sats - 1)
        b1 == bit0 + 8 * num_sats
        b2 == IF msm_has_rate(msm_type) THEN b1 + 4 * num_sats ELSE b1
        b3 == b2 + 10 * num_sats
        b4 == IF msm_has_rate(msm_type) THEN b3 + 14 * num_sats ELSE b3
        range_ms == [i \in S |-> rtcm_getbitu(b, bit0 + 8 * i, 8)]
        rough_range_valid == [i \in S |-> MSM_ROUGH_RANGE_INVALID # range_ms[i]]
    IN  [rough_range_ms |->
            [i \in S |->
                IF rough_range_valid[i]
                THEN 1024 * range_ms[i] + rtcm_getbitu(b, b2 + 10 * i, 10)
                ELSE 1024 * range_ms[i]],
         rough_range_valid |-> rough_range_valid,
         sat_info |->
            [i \in S |->
                IF msm_has_rate(msm_type)
                THEN rtcm_getbitu(b, b1 + 4 * i, 4)
                ELSE 0],
         sat_info_valid |-> [i \in S |-> msm_has_rate(msm_type)],
         rough_rate_m_s |->
            [i \in S |->
                IF msm_has_rate(msm_type)
                THEN rtcm_getbits(b, b3 + 14 * i, 14)
                ELSE 0],
         rough_rate_valid |->
            [i \in S |->
                IF msm_has_rate(msm_type)
                THEN MSM_ROUGH_RATE_INVALID # rtcm_getbits(b, b3 + 14 * i, 14)
                ELSE FALSE],
         bit |-> U16(b4)]

----------------------------------------------------------------------------
(* MSM signal block: each field's num_cells values lie together.  sg holds *)
(* the arrays of rtcm3_decode_msm_internal that the field decoders fill,   *)
(* and the cursor.                                                         *)

ZeroFlags ==
    [valid_pr |-> FALSE, valid_cp |-> FALSE, valid_lock |-> FALSE,
     valid_cnr |-> FALSE, valid_dop |-> FALSE]

\* the arrays as declared, flags[i].data = 0, and the cursor after the
\* satellite block
msm_signal_arrays(num_cells, bit0) ==
    [fine_pr_ms |-> [i \in 0..(num_cells - 1) |-> 0],
     fine_cp_ms |-> [i \in 0..(num_cells - 1) |-> 0],
     lock_time |-> [i \in 0..(num_cells - 1) |-> 0],
     hca_indicator |-> [i \in 0..(num_cells - 1) |-> FALSE],
     cnr |-> [i \in 0..(num_cells - 1) |-> 0],
     fine_range_rate_m_s |-> [i \in 0..(num_cells - 1) |-> 0],
     flags |-> [i \in 0..(num_cells - 1) |-> ZeroFlags],
     bit |-> bit0]

\* DF400, in 2^-24 ms
decode_msm_fine_pseudoranges(b, num_cells, sg) ==
    LET decoded == [i \in 0..(num_cells - 1) |-> rtcm_getbits(b, sg.bit + 15 * i, 15)]
    IN  [sg EXCEPT
            !.fine_pr_ms = decoded,
            !.flags = [i \in 0..(num_cells - 1) |->
                         [sg.flags[i] EXCEPT
                             !.valid_pr = (decoded[i] # MSM_PR_INVALID)]],
            !.bit = U16(sg.bit + 15 * num_cells)]

\* DF405, in 2^-29 ms
decode_msm_fine_pseudoranges_extended(b, num_cells, sg) ==
    LET decoded == [i \in 0..(num_cells - 1) |-> rtcm_getbitsl(b, sg.bit + 20 * i, 20)]
    IN  [sg EXCEPT
            !.fine_pr_ms = decoded,
            !.flags = [i \in 0..(num_cells - 1) |->
                         [sg.flags[i] EXCEPT
                             !.valid_pr = (decoded[i] # MSM_PR_EXT_INVALID)]],
            !.bit = U16(sg.bit + 20 * num_cells)]

\* DF401, in 2^-29 ms
decode_msm_fine_phaseranges(b, num_cells, sg) ==
    LET decoded == [i \in 0..(num_cells - 1) |-> rtcm_getbits(b, sg.bit + 22 * i, 22)]
    IN  [sg EXCEPT
            !.fine_cp_ms = decoded,
            !.flags = [i \in 0..(num_cells - 1) |->
                         [sg.flags[i] EXCEPT
                             !.valid_cp = (decoded[i] # MSM_CP_INVALID)]],
            !.bit = U16(sg.bit + 22 * num_cells)]

\* DF406, in 2^-31 ms
decode_msm_fine_phaseranges_extended(b, num_cells, sg) ==
    LET decoded == [i \in 0..(num_cells - 1) |-> rtcm_getbits(b, sg.bit + 24 * i, 24)]
    IN  [sg EXCEPT
            !.fine_cp_ms = decoded,
            !.flags = [i \in 0..(num_cells - 1) |->
                         [sg.flags[i] EXCEPT
                             !.valid_cp = (decoded[i] # MSM_CP_EXT_INVALID)]],
            !.bit = U16(sg.bit + 24 * num_cells)]

\* DF402, in 1/1000 s
decode_msm_lock_times(b, num_cells, sg) ==
    [sg EXCEPT
        !.lock_time = [i \in 0..(num_cells - 1) |->
                          rtcm3_decode_lock_time(rtcm_getbitu(b, sg.bit + 4 * i, 4))],
        !.flags = [i \in 0..(num_cells - 1) |->
                      [sg.flags[i] EXCEPT !.valid_lock = TRUE]],
        !.bit = U16(sg.bit + 4 * num_cells)]

\* DF407, in 1/1000 s
decode_msm_lock_times_extended(b, num_cells, sg) ==
    [sg EXCEPT
        !.lock_time = [i \in 0..(num_cells - 1) |->
                          from_msm_lock_ind_ext(rtcm_getbitu(b, sg.bit + 10 * i, 10))],
        !.flags = [i \in 0..(num_cells - 1) |->
                      [sg.flags[i] EXCEPT !.valid_lock = TRUE]],
        !.bit = U16(sg.bit + 10 * num_cells)]

\* DF420
decode_msm_hca_indicators(b, num_cells, sg) ==
    [sg EXCEPT
        !.hca_indicator = [i \in 0..(num_cells - 1) |->
                              rtcm_getbitu(b, sg.bit + i, 1) = 1],
        !.bit = U16(sg.bit + num_cells)]

\* DF403, in 1/16 dB-Hz
decode_msm_cnrs(b, num_cells, sg) ==
    LET decoded == [i \in 0..(num_cells - 1) |-> rtcm_getbitu(b, sg.bit + 6 * i, 6)]
    IN  [sg EXCEPT
            !.cnr = [i \in 0..(num_cells - 1) |-> 16 * decoded[i]],
            !.flags = [i \in 0..(num_cells - 1) |->
                         [sg.flags[i] EXCEPT !.valid_cnr = (decoded[i] # 0)]],
            !.bit = U16(sg.bit + 6 * num_cells)]

\* DF408, in 1/16 dB-Hz
decode_msm_cnrs_extended(b, num_cells, sg) ==
    LET decoded == [i \in 0..(num_cells - 1) |-> rtcm_getbitu(b, sg.bit + 10 * i, 10)]
    IN  [sg EXCEPT
            !.cnr = decoded,
            !.flags = [i \in 0..(num_cells - 1) |->
                         [sg.flags[i] EXCEPT !.valid_cnr = (decoded[i] # 0)]],
            !.bit = U16(sg.bit + 10 * num_cells)]

\* DF404, in 1/10000 m/s
decode_msm_fine_phaserangerates(b, num_cells, sg) ==
    LET decoded == [i \in 0..(num_cells - 1) |-> rtcm_getbits(b, sg.bit + 15 * i, 15)]
    IN  [sg EXCEPT
            !.fine_range_rate_m_s = decoded,
            !.flags = [i \in 0..(num_cells - 1) |->
                         [sg.flags[i] EXCEPT
                             !.valid_dop = (decoded[i] # MSM_DOP_INVALID)]],
            !.bit = U16(sg.bit + 15 * num_cells)]

\* fine pseudoranges, fine phase ranges and lock times, of the width of
\* the MSM type
msm_decode_ranges(b, msm_type, num_cells, sg) ==
    IF msm_type = MSM4 \/ msm_type = MSM5
    THEN decode_msm_lock_times(b, num_cells,
            decode_msm_fine_phaseranges(b, num_cells,
                decode_msm_fine_pseudoranges(b, num_cells, sg)))
    ELSE decode_msm_lock_times_extended(b, num_cells,
            decode_msm_fine_phaseranges_extended(b, num_cells,
                decode_msm_fine_pseudoranges_extended(b, num_cells, sg)))

msm_decode_cnrs(b, msm_type, num_cells, sg) ==
    IF msm_type = MSM4 \/ msm_type = MSM5
    THEN decode_msm_cnrs(b, num_cells, sg)
    ELSE decode_msm_cnrs_extended(b, num_cells, sg)

msm_decode_rates(b, msm_type, num_cells, sg) ==
    IF msm_has_rate(msm_type)
    THEN decode_msm_fine_phaserangerates(b, num_cells, sg)
    ELSE sg

\* the signal block, in wire order
msm_decode_signals(b, msm_type, num_cells, sg) ==
    msm_decode_rates(b, msm_type, num_cells,
        msm_decode_cnrs(b, msm_type, num_cells,
            decode_msm_hca_indicators(b, num_cells,
                msm_decode_ranges(b, msm_type, num_cells, sg))))

----------------------------------------------------------------------------
(* MSM4..MSM7 decoder.                                                     *)

MsmZero ==
    [rough |-> 0, fine |-> 0]

\* a variant of msm_assemble_cell that does not look at the validity of the
\* satellite's rough range
msm_assemble_cell_fine_only(sd, sg, sat, i) ==
    LET pr_ok == sg.flags[i].valid_pr
        cp_ok == sg.flags[i].valid_cp
        dop_ok == sd.rough_rate_valid[sat] /\ sg.flags[i].valid_dop
    IN  [pseudorange_ms |->
            IF pr_ok
            THEN [rough |-> sd.rough_range_ms[sat], fine |-> sg.fine_pr_ms[i]]
            ELSE MsmZero,
         carrier_phase_ms |->
            IF cp_ok
            THEN [rough |-> sd.rough_range_ms[sat], fine |-> sg.fine_cp_ms[i]]
            ELSE MsmZero,
         lock_time_s |-> sg.lock_time[i],
         hca_indicator |-> sg.hca_indicator[i],
         cnr |-> IF sg.flags[i].valid_cnr THEN sg.cnr[i] ELSE 0,
         range_rate_m_s |->
            IF dop_ok
            THEN 10000 * sd.rough_rate_m_s[sat] + sg.fine_range_rate_m_s[i]
            ELSE 0,
         flags |-> [sg.flags[i] EXCEPT !.valid_pr = pr_ok,
                                       !.valid_cp = cp_ok,
                                       !.valid_dop = dop_ok]]

\* One cell of the assembly loop: cell i of the signal block, satellite sat.
msm_assemble_cell(sd, sg, sat, i) ==
    LET pr_ok == sd.rough_range_valid[sat] /\ sg.flags[i].valid_pr
        cp_ok == sd.rough_range_valid[sat] /\ sg.flags[i].valid_cp
        dop_ok == sd.rough_rate_valid[sat] /\ sg.flags[i].valid_dop
    IN  [pseudorange_ms |->
            IF pr_ok
            THEN [rough |-> sd.rough_range_ms[sat], fine |-> sg.fine_pr_ms[i]]
            ELSE MsmZero,
         carrier_phase_ms |->
            IF cp_ok
            THEN [rough |-> sd.rough_range_ms[sat], fine |-> sg.fine_cp_ms[i]]
            ELSE MsmZero,
         lock_time_s |-> sg.lock_time[i],
         hca_indicator |-> sg.hca_indicator[i],
         cnr |-> IF sg.flags[i].valid_cnr THEN sg.cnr[i] ELSE 0,
         range_rate_m_s |->
            IF dop_ok
            THEN 10000 * sd.rough_rate_m_s[sat] + sg.fine_range_rate_m_s[i]
            ELSE 0,
         flags |-> [sg.flags[i] EXCEPT !.valid_pr = pr_ok,
                                       !.valid_cp = cp_ok,
                                       !.valid_dop = dop_ok]]

\* a variant of msm_cells that meets the cell mask indices in decreasing
\* order
msm_cells_reversed(cell_mask, size) ==
    SelectSeq([j \in 1..size |-> size - j], LAMBDA j : cell_mask[j] = 1)

\* The nested loop over (sat, sig) meets the cell mask indices
\* j = sat * num_sigs + sig in increasing order and takes those whose bit is
\* set: the sequence of the indices taken, in the order taken.  The counter
\* i of the loop is the position in this sequence, from 0.
msm_cells(cell_mask, size) ==
    SelectSeq([j \in 1..size |-> j - 1], LAMBDA j : cell_mask[j] = 1)

msm_assemble(cell_mask, num_sigs, size, sd, sg, signals) ==
    LET cells == msm_cells(cell_mask, size)
    IN  [i \in DOMAIN signals |->
            IF i < Len(cells)
            THEN msm_assemble_cell(sd, sg, cells[i + 1] \div num_sigs, i)
            ELSE signals[i]]

msm_tow_in_range(cons, tow_ms) ==
    IF cons # RTCM_CONSTELLATION_GLO
    THEN tow_ms <= RTCM_MAX_TOW_MS
    ELSE tow_ms <= RTCM_GLO_MAX_TOW_MS

\* a variant of msm_type_mismatch that does not compare the requested type
msm_type_mismatch_any_type(msm_type, msg_num) ==
    to_constellation(msg_num) = RTCM_CONSTELLATION_INVALID

\* the message number does not match the requested type, or its
\* constellation is not known
msm_type_mismatch(msm_type, msg_num) ==
    \/ msm_type # to_msm_type(msg_num)
    \/ to_constellation(msg_num) = RTCM_CONSTELLATION_INVALID

\* a variant of msm_too_many_cells that compares the product as a uint8_t
msm_too_many_cells_u8(num_sats, num_sigs) ==
    U8(num_sats * num_sigs) > MSM_MAX_CELLS

msm_too_many_cells(num_sats, num_sigs) ==
    num_sats * num_sigs > MSM_MAX_CELLS

\* a variant of msm_glo_fcn that stores sat_info whether or not it is valid
msm_glo_fcn_as_received(cons, sat_info_valid, sat_info) ==
    sat_info

msm_glo_fcn(cons, sat_info_valid, sat_info) ==
    IF cons = RTCM_CONSTELLATION_GLO /\ ~sat_info_valid
    THEN MSM_GLO_FCN_UNKNOWN
    ELSE sat_info

\* The loop that stores the satellites and the cells, and the return.
msm_store(cons, msg, header, num_sats, num_sigs, cell_mask_size, sd, sg) ==
    [rc |-> RC_OK,
     msg |->
        [header |-> header,
         sats |->
            [sat \in DOMAIN msg.sats |->
                IF sat < num_sats
                THEN [rough_range_ms |-> sd.rough_range_ms[sat],
                      rough_range_rate_m_s |-> sd.rough_rate_m_s[sat],
                      glo_fcn |-> msm_glo_fcn(cons, sd.sat_info_valid[sat],
                                              sd.sat_info[sat])]
                ELSE msg.sats[sat]],
         signals |-> msm_assemble(header.cell_mask, num_sigs, cell_mask_size,
                                  sd, sg, msg.signals)],
     bit |-> sg.bit,
     oob |-> {}]

\* The satellite block, then the signal block from the cursor it leaves.
msm_decode_blocks(b, msm_type, cons, msg, header, num_sats, num_sigs, sd) ==
    msm_store(cons, msg, header, num_sats, num_sigs, U8(num_sats * num_sigs), sd,
              msm_decode_signals(
                  b, msm_type,
                  U8(count_mask_values(U8(num_sats * num_sigs), header.cell_mask)),
                  msm_signal_arrays(
                      U8(count_mask_values(U8(num_sats * num_sigs),
                                           header.cell_mask)),
                      sd.bit)))

\* The part of rtcm3_decode_msm_internal after the header checks.
msm_decode_body(b, msm_type, cons, msg, header, bit0) ==
    LET num_sats == U8(count_mask_values(MSM_SATELLITE_MASK_SIZE,
                                         header.satellite_mask))
        num_sigs == U8(count_mask_values(MSM_SIGNAL_MASK_SIZE,
                                         header.signal_mask))
    IN  msm_decode_blocks(b, msm_type, cons, msg, header, num_sats, num_sigs,
                          decode_msm_sat_data(b, num_sats, msm_type, bit0))

\* The part of rtcm3_decode_msm_internal after the header read; h is what
\* rtcm3_read_msm_header returned and wrote.
msm_after_header(b, msm_type, cons, msg, h) ==
    IF ~msm_tow_in_range(cons, h.header.tow_ms)
    THEN [rc |-> RC_INVALID_MESSAGE, msg |-> [msg EXCEPT !.header = h.header],
          bit |-> h.bit, oob |-> h.oob]
    ELSE IF msm_too_many_cells(
                U8(count_mask_values(MSM_SATELLITE_MASK_SIZE,
                                     h.header.satellite_mask)),
                U8(count_mask_values(MSM_SIGNAL_MASK_SIZE,
                                     h.header.signal_mask)))
    THEN [rc |-> RC_INVALID_MESSAGE, msg |-> [msg EXCEPT !.header = h.header],
          bit |-> h.bit, oob |-> h.oob]
    ELSE msm_decode_body(b, msm_type, cons, [msg EXCEPT !.header = h.header],
                         h.header, h.bit)

rtcm3_decode_msm_internal(b, msm_type, msg) ==
    LET msg_num == rtcm_getbitu(b, 0, 12)
        msg1 == [msg EXCEPT !.header.msg_num = msg_num]
        cons == to_constellation(msg_num)
    IN  IF msm_type \notin {MSM4, MSM5, MSM6, MSM7}
        THEN [rc |-> RC_MESSAGE_TYPE_MISMATCH, msg |-> msg, bit |-> 0, oob |-> {}]
        ELSE IF msm_type_mismatch(msm_type, msg_num)
        THEN [rc |-> RC_MESSAGE_TYPE_MISMATCH, msg |-> msg1, bit |-> 0, oob |-> {}]
        ELSE msm_after_header(b, msm_type, cons, msg1,
                              rtcm3_read_msm_header(b, cons, msg1.header))

----------------------------------------------------------------------------
(* The caller's rtcm_msm_message before the call.                          *)

MsmZeroSat ==
    [rough_range_ms |-> 0, rough_range_rate_m_s |-> 0, glo_fcn |-> 0]

MsmZeroSignal ==
    [pseudorange_ms |-> MsmZero, carrier_phase_ms |-> MsmZero,
     lock_time_s |-> 0, hca_indicator |-> FALSE, cnr |-> 0,
     range_rate_m_s |-> 0, flags |-> ZeroFlags]

MsmZeroMsg ==
    [header |->
        [msg_num |-> 0, stn_id |-> 0, tow_ms |-> 0, multiple |-> 0, iods |-> 0,
         reserved |-> 0, steering |-> 0, ext_clock |-> 0, div_free |-> 0,
         smooth |-> 0,
         satellite_mask |-> [i \in 0..(MSM_SATELLITE_MASK_SIZE - 1) |-> 0],
         signal_mask |-> [i \in 0..(MSM_SIGNAL_MASK_SIZE - 1) |-> 0],
         cell_mask |-> [i \in 0..(MSM_MAX_CELLS - 1) |-> 0]],
     sats |-> [i \in 0..(MSM_SATELLITE_MASK_SIZE - 1) |-> MsmZeroSat],
     signals |-> [i \in 0..(MSM_MAX_CELLS - 1) |-> MsmZeroSignal]]

\* A record left by an earlier, unrelated decode: every flag set, every
\* mask bit set, values no buffer of the model decodes to.
MsmJunkSat ==
    [rough_range_ms |-> 999999, rough_range_rate_m_s |-> 7777, glo_fcn |-> 99]

MsmJunkSignal ==
    [pseudorange_ms |-> [rough |-> 999999, fine |-> 9],
     carrier_phase_ms |-> [rough |-> 999999, fine |-> 9],
     lock_time_s |-> 99, hca_indicator |-> TRUE, cnr |-> 9999,
     range_rate_m_s |-> 99,
     flags |-> [valid_pr |-> TRUE, valid_cp |-> TRUE, valid_lock |-> TRUE,
                valid_cnr |-> TRUE, valid_dop |-> TRUE]]

MsmJunkMsg ==
    [header |->
        [msg_num |-> 4095, stn_id |-> 4095, tow_ms |-> 99, multiple |-> 1,
         iods |-> 7, reserved |-> 127, steering |-> 3, ext_clock |-> 3,
         div_free |-> 1, smooth |-> 7,
         satellite_mask |-> [i \in 0..(MSM_SATELLITE_MASK_SIZE - 1) |-> 1],
         signal_mask |-> [i \in 0..(MSM_SIGNAL_MASK_SIZE - 1) |-> 1],
         cell_mask |-> [i \in 0..(MSM_MAX_CELLS - 1) |-> 1]],
     sats |-> [i \in 0..(MSM_SATELLITE_MASK_SIZE - 1) |-> MsmJunkSat],
     signals |-> [i \in 0..(MSM_MAX_CELLS - 1) |-> MsmJunkSignal]]

MsmPrior(p) ==
    IF p = "zero" THEN MsmZeroMsg ELSE MsmJunkMsg

\* What a cell_mask write beyond MSM_MAX_CELLS lands on is outside the
\* array: the record's storage after the header is left as it was or holds
\* the stray bytes.
MsmStraySat ==
    [rough_range_ms |-> -1, rough_range_rate_m_s |-> -1, glo_fcn |-> -1]

MsmStrayOutcomes(msg, stray) ==
    IF stray = {}
    THEN {msg}
    ELSE {msg, [msg EXCEPT !.sats[0] = MsmStraySat]}

----------------------------------------------------------------------------
(* Legacy observables 1001..1004 (GPS) and 1010, 1012 (GLONASS).           *)
(* A pseudorange is [pr, amb]: 0.02 m * pr + PRUNIT_GPS * amb, and         *)
(* PRUNIT_GLO is two PRUNIT_GPS.  A carrier phase is the pseudorange it is *)
(* built from, the phase-pseudorange difference in 0.0005 m and the        *)
(* carrier [band, glo_fcn] whose wavelength divides the sum.  cnr is in    *)
(* 0.25 dB-Hz, lock in seconds.                                            *)

L1_FREQ == 0
L2_FREQ == 1
NUM_FREQS == 2
RTCM_MAX_SATS == 32

PR_L1_INVALID == 524288
PR_L2_INVALID == -8192
CP_INVALID == -524288
MT1012_GLO_FCN_OFFSET == 7
MT1012_GLO_MAX_FCN == 20

PRUNIT_GPS == 1
PRUNIT_GLO == 2

GPS_L1_HZ ==
    [band |-> "GPS_L1", glo_fcn |-> 0]

GPS_L2_HZ ==
    [band |-> "GPS_L2", glo_fcn |-> 0]

\* GLO_L1_HZ + glo_fcn * GLO_L1_DELTA_HZ
GLO_L1_HZ(glo_fcn) ==
    [band |-> "GLO_L1", glo_fcn |-> glo_fcn]

\* GLO_L2_HZ + glo_fcn * GLO_L2_DELTA_HZ
GLO_L2_HZ(glo_fcn) ==
    [band |-> "GLO_L2", glo_fcn |-> glo_fcn]

ObsZeroRange ==
    [pr |-> 0, amb |-> 0]

ObsZeroPhase ==
    [pr |-> 0, amb |-> 0, diff |-> 0, freq |-> [band |-> "none", glo_fcn |-> 0]]

\* a variant of init_sat_data that clears the flags of the first frequency
\* only
init_sat_data_l1_only(sat_data) ==
    [sat_data EXCEPT !.obs[L1_FREQ].flags = ZeroFlags]

init_sat_data(sat_data) ==
    [sat_data EXCEPT
        !.obs = [freq \in 0..(NUM_FREQS - 1) |->
                    [sat_data.obs[freq] EXCEPT !.flags = ZeroFlags]]]

\* The satellite loops work on msg->sats[i], the cursor and a few locals;
\* c holds them, and ret is what the last helper returned.
obs_locals(sat_data, bit0) ==
    [sat |-> sat_data, bit |-> bit0, l1_pr |-> 0, l2_pr |-> 0,
     phr_pr_diff |-> 0, amb |-> 0, glo_fcn |-> 0, ret |-> FALSE]

decode_basic_gps_l1_freq_data(b, c) ==
    [c EXCEPT
        !.sat.obs[L1_FREQ].code = rtcm_getbitu(b, c.bit, 1),
        !.l1_pr = rtcm_getbitu(b, c.bit + 1, 24),
        !.phr_pr_diff = rtcm_getbits(b, c.bit + 1 + 24, 20),
        !.sat.obs[L1_FREQ].lock =
            from_lock_ind(rtcm_getbitu(b, c.bit + 1 + 24 + 20, 7)),
        !.bit = c.bit + 1 + 24 + 20 + 7]

decode_basic_glo_l1_freq_data(b, c) ==
    [c EXCEPT
        !.sat.obs[L1_FREQ].code = rtcm_getbitu(b, c.bit, 1),
        !.sat.fcn = rtcm_getbitu(b, c.bit + 1, 5),
        !.l1_pr = rtcm_getbitu(b, c.bit + 1 + 5, 25),
        !.phr_pr_diff = rtcm_getbits(b, c.bit + 1 + 5 + 25, 20),
        !.sat.obs[L1_FREQ].lock =
            from_lock_ind(rtcm_getbitu(b, c.bit + 1 + 5 + 25 + 20, 7)),
        !.bit = c.bit + 1 + 5 + 25 + 20 + 7]

decode_basic_l2_freq_data(b, c) ==
    [c EXCEPT
        !.sat.obs[L2_FREQ].code = rtcm_getbitu(b, c.bit, 2),
        !.l2_pr = rtcm_getbits(b, c.bit + 2, 14),
        !.phr_pr_diff = rtcm_getbits(b, c.bit + 2 + 14, 20),
        !.sat.obs[L2_FREQ].lock =
            from_lock_ind(rtcm_getbitu(b, c.bit + 2 + 14 + 20, 7)),
        !.bit = c.bit + 2 + 14 + 20 + 7]

rtcm3_read_header(b, header) ==
    [header |-> [header EXCEPT
                    !.msg_num = rtcm_getbitu(b, 0, 12),
                    !.stn_id = rtcm_getbitu(b, 12, 12),
                    !.tow_ms = rtcm_getbitu(b, 24, 30),
                    !.sync = rtcm_getbitu(b, 54, 1),
                    !.n_sat = rtcm_getbitu(b, 55, 5),
                    !.div_free = rtcm_getbitu(b, 60, 1),
                    !.smooth = rtcm_getbitu(b, 61, 3)],
     bit |-> 12 + 12 + 30 + 1 + 5 + 1 + 3]

rtcm3_read_glo_header(b, header) ==
    [header |-> [header EXCEPT
                    !.msg_num = rtcm_getbitu(b, 0, 12),
                    !.stn_id = rtcm_getbitu(b, 12, 12),
                    !.tow_ms = rtcm_getbitu(b, 24, 27),
                    !.sync = rtcm_getbitu(b, 51, 1),
                    !.n_sat = rtcm_getbitu(b, 52, 5),
                    !.div_free = rtcm_getbitu(b, 57, 1),
                    !.smooth = rtcm_getbitu(b, 58, 3)],
     bit |-> 12 + 12 + 27 + 1 + 5 + 1 + 3]

\* amb_correction is amb * prunit, counted in PRUNIT_GPS
construct_L1_code(c, prunit) ==
    [c EXCEPT
        !.sat.obs[L1_FREQ].pseudorange = [pr |-> c.l1_pr, amb |-> c.amb * prunit],
        !.ret = (c.l1_pr # PR_L1_INVALID)]

construct_L1_phase(c, freq) ==
    [c EXCEPT
        !.sat.obs[L1_FREQ].carrier_phase =
            [pr |-> c.sat.obs[L1_FREQ].pseudorange.pr,
             amb |-> c.sat.obs[L1_FREQ].pseudorange.amb,
             diff |-> c.phr_pr_diff,
             freq |-> freq],
        !.ret = (c.phr_pr_diff # CP_INVALID)]

construct_L2_code(c) ==
    [c EXCEPT
        !.sat.obs[L2_FREQ].pseudorange =
            [pr |-> c.l2_pr + c.sat.obs[L1_FREQ].pseudorange.pr,
             amb |-> c.sat.obs[L1_FREQ].pseudorange.amb],
        !.ret = (c.l2_pr # PR_L2_INVALID)]

construct_L2_phase(c, freq) ==
    [c EXCEPT
        !.sat.obs[L2_FREQ].carrier_phase =
            [pr |-> c.sat.obs[L1_FREQ].pseudorange.pr,
             amb |-> c.sat.obs[L1_FREQ].pseudorange.amb,
             diff |-> c.phr_pr_diff,
             freq |-> freq],
        !.ret = (c.phr_pr_diff # CP_INVALID)]

\* a variant of get_cnr that reports every CNR as present
get_cnr_any(c, freq, b) ==
    [c EXCEPT
        !.sat.obs[freq].cnr = rtcm_getbitu(b, c.bit, 8),
        !.ret = TRUE,
        !.bit = c.bit + 8]

\* cnr in 0.25 dB-Hz
get_cnr(c, freq, b) ==
    [c EXCEPT
        !.sat.obs[freq].cnr =
            IF rtcm_getbitu(b, c.bit, 8) = 0 THEN @ ELSE rtcm_getbitu(b, c.bit, 8),
        !.ret = (rtcm_getbitu(b, c.bit, 8) # 0),
        !.bit = c.bit + 8]

\* freq_data->flags.<flag> = <what the helper returned>
obs_flag(c, freq, flag) ==
    [c EXCEPT !.sat.obs[freq].flags[flag] = c.ret]

\* freq_data->flags.valid_lock = freq_data->flags.valid_cp
obs_lock(c, freq) ==
    [c EXCEPT !.sat.obs[freq].flags.valid_lock = c.sat.obs[freq].flags.valid_cp]

\* init_sat_data, then svId
obs_sv(b, c) ==
    [c EXCEPT
        !.sat = [init_sat_data(c.sat) EXCEPT !.svId = rtcm_getbitu(b, c.bit, 6)],
        !.bit = c.bit + 6]

\* a variant of obs_amb that reads 8 bits in every message
obs_amb_u8(b, c, width) ==
    [c EXCEPT !.amb = rtcm_getbitu(b, c.bit, 8), !.bit = c.bit + 8]

\* uint8_t amb = rtcm_getbitu(buff, bit, width)
obs_amb(b, c, width) ==
    [c EXCEPT !.amb = rtcm_getbitu(b, c.bit, width), !.bit = c.bit + width]

\* int8_t glo_fcn = sats[i].fcn - MT1012_GLO_FCN_OFFSET
obs_glo_fcn(c) ==
    [c EXCEPT !.glo_fcn = c.sat.fcn - MT1012_GLO_FCN_OFFSET]

\* The checks between the header read and the satellite loop.
\* a variant that checks the epoch time before the message number
obs_header_check_tow_first(msg_num, expected, tow_ms, max_tow_ms) ==
    IF tow_ms > max_tow_ms THEN RC_INVALID_MESSAGE
    ELSE IF msg_num # expected THEN RC_MESSAGE_TYPE_MISMATCH
    ELSE RC_OK

obs_header_check(msg_num, expected, tow_ms, max_tow_ms) ==
    IF msg_num # expected THEN RC_MESSAGE_TYPE_MISMATCH
    ELSE IF tow_ms > max_tow_ms THEN RC_INVALID_MESSAGE
    ELSE RC_OK

\* The L1 block of a GPS satellite; 1002 and 1004 (extended) read amb and
\* cnr as well, 1001 and 1003 pass an amb_correction of 0.
obs_gps_l1(b, c, extended) ==
    obs_lock(
        obs_flag(
            construct_L1_phase(
                obs_flag(
                    construct_L1_code(
                        IF extended
                        THEN obs_flag(
                                 get_cnr(
                                     obs_amb(b,
                                         decode_basic_gps_l1_freq_data(
                                             b, obs_sv(b, c)),
                                         8),
                                     L1_FREQ, b),
                                 L1_FREQ, "valid_cnr")
                        ELSE decode_basic_gps_l1_freq_data(b, obs_sv(b, c)),
                        IF extended THEN PRUNIT_GPS ELSE 0),
                    L1_FREQ, "valid_pr"),
                GPS_L1_HZ),
            L1_FREQ, "valid_cp"),
        L1_FREQ)

\* valid_cp = (fcn <= MT1012_GLO_MAX_FCN) && construct_L1_phase(...): the
\* phase is constructed only if fcn is within MT1012_GLO_MAX_FCN
obs_glo_l1_phase(c) ==
    IF c.sat.fcn <= MT1012_GLO_MAX_FCN
    THEN obs_flag(construct_L1_phase(c, GLO_L1_HZ(c.glo_fcn)), L1_FREQ, "valid_cp")
    ELSE obs_flag([c EXCEPT !.ret = FALSE], L1_FREQ, "valid_cp")

\* The L1 block of a GLONASS satellite of 1010 and 1012: amb has 7 bits.
obs_glo_l1(b, c) ==
    obs_lock(
        obs_glo_l1_phase(
            obs_flag(
                construct_L1_code(
                    obs_flag(
                        get_cnr(
                            obs_glo_fcn(
                                obs_amb(b,
                                    decode_basic_glo_l1_freq_data(b, obs_sv(b, c)),
                                    7)),
                            L1_FREQ, b),
                        L1_FREQ, "valid_cnr"),
                    PRUNIT_GLO),
                L1_FREQ, "valid_pr")),
        L1_FREQ)

\* 1004 and 1012 (extended) read the L2 cnr
obs_l2_cnr(b, c, extended) ==
    IF extended
    THEN obs_flag(get_cnr(c, L2_FREQ, b), L2_FREQ, "valid_cnr")
    ELSE c

\* valid_cp = construct_L2_phase(...), on the GPS or the GLONASS carrier
obs_l2_phase(c, glo) ==
    obs_flag(
        construct_L2_phase(c, IF glo THEN GLO_L2_HZ(c.glo_fcn) ELSE GPS_L2_HZ),
        L2_FREQ, "valid_cp")

\* The L2 block of 1003, 1004 and 1012, after the L1 block.
obs_l2(b, c, extended, glo) ==
    obs_lock(
        obs_l2_phase(
            obs_flag(
                construct_L2_code(
                    obs_l2_cnr(b, decode_basic_l2_freq_data(b, c), extended)),
                L2_FREQ, "valid_pr"),
            glo),
        L2_FREQ)

\* the L2 block of the decoders that have one
obs_sat_l2(b, msg_num, c) ==
    IF msg_num \in {1003, 1004, 1012}
    THEN obs_l2(b, c, msg_num # 1003, msg_num = 1012)
    ELSE c

\* the body of the satellite loop of decoder msg_num
obs_sat(b, msg_num, c) ==
    obs_sat_l2(b, msg_num,
               IF msg_num \in {1010, 1012}
               THEN obs_glo_l1(b, c)
               ELSE obs_gps_l1(b, c, msg_num \in {1002, 1004}))

\* The state of the satellite loop: r holds msg->sats, the cursor and the
\* counter i.  After the body of the loop and i++:
obs_next(r, c) ==
    [sats |-> [r.sats EXCEPT ![r.i] = c.sat], bit |-> c.bit, i |-> r.i + 1]

\* for (; i < hi; i++), from the state r: the iterations up to the middle,
\* then the others
RECURSIVE obs_sats(_, _, _, _)
obs_sats(b, msg_num, hi, r) ==
    IF r.i >= hi
    THEN r
    ELSE IF r.i + 1 = hi
    THEN obs_next(r, obs_sat(b, msg_num, obs_locals(r.sats[r.i], r.bit)))
    ELSE obs_sats(b, msg_num, hi,
                  obs_sats(b, msg_num, (r.i + hi) \div 2, r))

\* return RC_OK after the loop
obs_return(header, r) ==
    [rc |-> RC_OK, msg |-> [header |-> header, sats |-> r.sats], bit |-> r.bit]

\* the decoder of message msg_num, its header of the GPS or GLONASS layout;
\* h is what the header read returned and wrote
obs_decode(b, msg_num, h, max_tow_ms, msg) ==
    LET st == obs_header_check(h.header.msg_num, msg_num, h.header.tow_ms,
                               max_tow_ms)
    IN  IF st # RC_OK
        THEN [rc |-> st, msg |-> [msg EXCEPT !.header = h.header], bit |-> h.bit]
        ELSE obs_return(h.header,
                        obs_sats(b, msg_num, h.header.n_sat,
                                 [sats |-> msg.sats, bit |-> h.bit, i |-> 0]))

rtcm3_decode_1001(b, msg_1001) ==
    obs_decode(b, 1001, rtcm3_read_header(b, msg_1001.header),
               RTCM_MAX_TOW_MS, msg_1001)

rtcm3_decode_1002(b, msg_1002) ==
    obs_decode(b, 1002, rtcm3_read_header(b, msg_1002.header),
               RTCM_MAX_TOW_MS, msg_1002)

rtcm3_decode_1003(b, msg_1003) ==
    obs_decode(b, 1003, rtcm3_read_header(b, msg_1003.header),
               RTCM_MAX_TOW_MS, msg_1003)

rtcm3_decode_1004(b, msg_1004) ==
    obs_decode(b, 1004, rtcm3_read_header(b, msg_1004.header),
               RTCM_MAX_TOW_MS, msg_1004)

rtcm3_decode_1010(b, msg_1010) ==
    obs_decode(b, 1010, rtcm3_read_glo_header(b, msg_1010.header),
               RTCM_GLO_MAX_TOW_MS, msg_1010)

rtcm3_decode_1012(b, msg_1012) ==
    obs_decode(b, 1012, rtcm3_read_glo_header(b, msg_1012.header),
               RTCM_GLO_MAX_TOW_MS, msg_1012)

\* The record the caller hands in: zeroed, or left over from earlier use.
ObsZeroFreq ==
    [code |-> 0, pseudorange |-> ObsZeroRange, carrier_phase |-> ObsZeroPhase,
     lock |-> 0, cnr |-> 0, flags |-> ZeroFlags]

ObsZeroSat ==
    [svId |-> 0, fcn |-> 0, obs |-> [freq \in 0..(NUM_FREQS - 1) |-> ObsZeroFreq]]

ObsZeroHeader ==
    [msg_num |-> 0, stn_id |-> 0, tow_ms |-> 0, sync |-> 0, n_sat |-> 0,
     div_free |-> 0, smooth |-> 0]

ObsZeroMsg ==
    [header |-> ObsZeroHeader,
     sats |-> [i \in 0..(RTCM_MAX_SATS - 1) |-> ObsZeroSat]]

ObsJunkFreq ==
    [code |-> 3,
     pseudorange |-> [pr |-> 111, amb |-> 1],
     carrier_phase |-> [pr |-> 222, amb |-> 3, diff |-> -7,
                        freq |-> [band |-> "GLO_L2", glo_fcn |-> 5]],
     lock |-> 937, cnr |-> 77,
     flags |-> [valid_pr |-> TRUE, valid_cp |-> TRUE, valid_lock |-> FALSE,
                valid_cnr |-> TRUE, valid_dop |-> TRUE]]

ObsJunkSat ==
    [svId |-> 63, fcn |-> 9, obs |-> [freq \in 0..(NUM_FREQS - 1) |-> ObsJunkFreq]]

ObsJunkMsg ==
    [header |-> [msg_num |-> 4095, stn_id |-> 4095, tow_ms |-> 123456,
                 sync |-> 1, n_sat |-> 31, div_free |-> 1, smooth |-> 7],
     sats |-> [i \in 0..(RTCM_MAX_SATS - 1) |-> ObsJunkSat]]

ObsPrior(p) ==
    IF p = "zero" THEN ObsZeroMsg ELSE ObsJunkMsg

----------------------------------------------------------------------------
(* 1230: GLONASS code-phase biases, in 0.02 m.                             *)

\* mask & flag, flag a power of two
fdma_mask_and(mask, flag) ==
    ((mask \div flag) % 2) * flag

\* a variant of read_cpb that steps over the field of an absent bias
read_cpb_fixed(b, mask, flag, bit0) ==
    IF fdma_mask_and(mask, flag) # 0
    THEN [cpb |-> rtcm_getbits(b, bit0, 16), bit |-> bit0 + 16]
    ELSE [cpb |-> 0, bit |-> bit0 + 16]

\* one bias: read if its mask bit is set, else 0.0
read_cpb(b, mask, flag, bit0) ==
    IF fdma_mask_and(mask, flag) # 0
    THEN [cpb |-> rtcm_getbits(b, bit0, 16), bit |-> bit0 + 16]
    ELSE [cpb |-> 0, bit |-> bit0]

rtcm3_decode_1230(b, msg) ==
    LET msg_num == rtcm_getbitu(b, 0, 12)
        bit1 == 12 + 12 + 1 + 3
        mask == rtcm_getbitu(b, bit1, 4)
        l1ca == read_cpb(b, mask, 8, bit1 + 4)
        l1p == read_cpb(b, mask, 4, l1ca.bit)
        l2ca == read_cpb(b, mask, 2, l1p.bit)
        l2p == read_cpb(b, mask, 1, l2ca.bit)
    IN  IF msg_num # 1230
        THEN [rc |-> RC_MESSAGE_TYPE_MISMATCH, msg |-> msg, bit |-> 12]
        ELSE [rc |-> RC_OK,
              msg |-> [stn_id |-> rtcm_getbitu(b, 12, 12),
                       bias_indicator |-> rtcm_getbitu(b, 24, 1),
                       fdma_signal_mask |-> mask,
                       L1_CA_cpb_meter |-> l1ca.cpb,
                       L1_P_cpb_meter |-> l1p.cpb,
                       L2_CA_cpb_meter |-> l2ca.cpb,
                       L2_P_cpb_meter |-> l2p.cpb],
              bit |-> l2p.bit]

Zero1230 ==
    [stn_id |-> 0, bias_indicator |-> 0, fdma_signal_mask |-> 0,
     L1_CA_cpb_meter |-> 0, L1_P_cpb_meter |-> 0, L2_CA_cpb_meter |-> 0,
     L2_P_cpb_meter |-> 0]

Junk1230 ==
    [stn_id |-> 4095, bias_indicator |-> 1, fdma_signal_mask |-> 15,
     L1_CA_cpb_meter |-> 1111, L1_P_cpb_meter |-> -2222,
     L2_CA_cpb_meter |-> 3333, L2_P_cpb_meter |-> -4444]

Prior1230(p) ==
    IF p = "zero" THEN Zero1230 ELSE Junk1230

----------------------------------------------------------------------------
(* 4062: Swift proprietary message.                                        *)

\* uint8_t data[255] of rtcm_msg_swift_proprietary
SWIFT_DATA_SIZE == 255

\* a variant of swift_reserved_bits_ok that looks at the low three bits only
swift_reserved_bits_ok_low3(reserved_bits) ==
    reserved_bits % 8 = 0

\* reserved_bits != 0 is an unknown format
swift_reserved_bits_ok(reserved_bits) ==
    reserved_bits = 0

\* for (uint8_t i = 0; i < msg->len; ++i) msg->data[i] = next byte
swift_data(b, len, bit0, data) ==
    [i \in DOMAIN data |->
        IF i < len THEN rtcm_getbitu(b, bit0 + 8 * i, 8) ELSE data[i]]

rtcm3_decode_4062(b, msg) ==
    IF rtcm_getbitu(b, 0, 12) # 4062
    THEN [rc |-> RC_MESSAGE_TYPE_MISMATCH, msg |-> msg, bit |-> 12]
    ELSE IF ~swift_reserved_bits_ok(rtcm_getbitu(b, 12, 4))
    THEN [rc |-> RC_INVALID_MESSAGE, msg |-> msg, bit |-> 12 + 4]
    ELSE [rc |-> RC_OK,
          msg |-> [msg_type |-> rtcm_getbitu(b, 16, 16),
                   sender_id |-> rtcm_getbitu(b, 32, 16),
                   len |-> rtcm_getbitu(b, 48, 8),
                   data |-> swift_data(b, rtcm_getbitu(b, 48, 8), 56, msg.data)],
          bit |-> 56 + 8 * rtcm_getbitu(b, 48, 8)]

Zero4062 ==
    [msg_type |-> 0, sender_id |-> 0, len |-> 0,
     data |-> [i \in 0..(SWIFT_DATA_SIZE - 1) |-> 0]]

Junk4062 ==
    [msg_type |-> 4660, sender_id |-> 22136, len |-> 200,
     data |-> [i \in 0..(SWIFT_DATA_SIZE - 1) |-> 170]]

Prior4062(p) ==
    IF p = "zero" THEN Zero4062 ELSE Junk4062

----------------------------------------------------------------------------
(* 1007, 1008, 1033: antenna and receiver descriptors.  A decoder works on *)
(* st: the record msg, the cursor bit, the status rc it will return (a     *)
(* status other than RC_OK means it has returned) and the indices oob at   *)
(* which it wrote past a string.                                           *)

\* the longest string, and the size of a string field
RTCM_MAX_STRING_LEN == 31

\* msg-><field> = rtcm_getbitu(buff, bit, width); bit += width
str_getbitu(b, st, field, width) ==
    IF st.rc # RC_OK
    THEN st
    ELSE [st EXCEPT !.msg[field] = rtcm_getbitu(b, st.bit, width),
                    !.bit = st.bit + width]

\* GET_STR: the bytes of a string of len characters, from the cursor
GET_STR(b, st, len, field) ==
    [st EXCEPT
        !.msg[field] =
            [i \in DOMAIN st.msg[field] |->
                IF i < len THEN rtcm_getbitu(b, st.bit + 8 * i, 8)
                ELSE st.msg[field][i]],
        !.oob = st.oob \cup {i \in 0..(len - 1) : i \notin DOMAIN st.msg[field]},
        !.bit = st.bit + 8 * len]

\* GET_STR_LEN: the length byte into the counter; a length above
\* RTCM_MAX_STRING_LEN returns RC_INVALID_MESSAGE from the decoder
GET_STR_LEN(b, st, counter) ==
    IF rtcm_getbitu(b, st.bit, 8) > RTCM_MAX_STRING_LEN
    THEN [st EXCEPT !.msg[counter] = rtcm_getbitu(b, st.bit, 8),
                    !.rc = RC_INVALID_MESSAGE]
    ELSE [st EXCEPT !.msg[counter] = rtcm_getbitu(b, st.bit, 8),
                    !.bit = st.bit + 8]

\* GET_STR_LEN, then GET_STR unless the decoder has returned
str_get(b, st, counter, field) ==
    IF st.rc # RC_OK
    THEN st
    ELSE IF GET_STR_LEN(b, st, counter).rc # RC_OK
    THEN GET_STR_LEN(b, st, counter)
    ELSE GET_STR(b, GET_STR_LEN(b, st, counter),
                 rtcm_getbitu(b, st.bit, 8), field)

\* after the message number: the decoder returns if it is not its own
str_begin(b, msg, expected) ==
    [msg |-> msg, bit |-> 12, oob |-> {},
     rc |-> IF rtcm_getbitu(b, 0, 12) # expected
            THEN RC_MESSAGE_TYPE_MISMATCH ELSE RC_OK]

\* a variant of rtcm3_decode_1007_base that reads the setup id ahead of the
\* descriptor
rtcm3_decode_1007_base_setup_first(b, st) ==
    str_get(b,
        str_getbitu(b, str_getbitu(b, st, "stn_id", 12), "ant_setup_id", 8),
        "ant_descriptor_counter", "ant_descriptor")

rtcm3_decode_1007_base(b, st) ==
    str_getbitu(b,
        str_get(b, str_getbitu(b, st, "stn_id", 12),
                "ant_descriptor_counter", "ant_descriptor"),
        "ant_setup_id", 8)

rtcm3_decode_1007(b, msg) ==
    IF str_begin(b, msg, 1007).rc # RC_OK
    THEN str_begin(b, msg, 1007)
    ELSE rtcm3_decode_1007_base(b, str_begin(b, msg, 1007))

\* st7 is what rtcm3_decode_1007_base returned and wrote into
\* msg_1008->msg_1007; if (RC_OK != ret) return ret; then the serial number
str_1008_serial(b, msg, st7) ==
    str_get(b, [st7 EXCEPT !.msg = [msg EXCEPT !.msg_1007 = st7.msg]],
            "ant_serial_num_counter", "ant_serial_num")

rtcm3_decode_1008(b, msg) ==
    IF str_begin(b, msg, 1008).rc # RC_OK
    THEN str_begin(b, msg, 1008)
    ELSE str_1008_serial(b, msg,
             rtcm3_decode_1007_base(b, str_begin(b, msg.msg_1007, 1008)))

Zero1007 ==
    [stn_id |-> 0, ant_descriptor_counter |-> 0,
     ant_descriptor |-> [i \in 0..(RTCM_MAX_STRING_LEN - 1) |-> 0],
     ant_setup_id |-> 0]

Zero1008 ==
    [msg_1007 |-> Zero1007, ant_serial_num_counter |-> 0,
     ant_serial_num |-> [i \in 0..(RTCM_MAX_STRING_LEN - 1) |-> 0]]

Zero1033 ==
    [stn_id |-> 0, ant_descriptor_counter |-> 0,
     ant_descriptor |-> [i \in 0..(RTCM_MAX_STRING_LEN - 1) |-> 0],
     ant_setup_id |-> 0, ant_serial_num_counter |-> 0,
     ant_serial_num |-> [i \in 0..(RTCM_MAX_STRING_LEN - 1) |-> 0],
     rcv_descriptor_counter |-> 0,
     rcv_descriptor |-> [i \in 0..(RTCM_MAX_STRING_LEN - 1) |-> 0],
     rcv_fw_version_counter |-> 0,
     rcv_fw_version |-> [i \in 0..(RTCM_MAX_STRING_LEN - 1) |-> 0],
     rcv_serial_num_counter |-> 0,
     rcv_serial_num |-> [i \in 0..(RTCM_MAX_STRING_LEN - 1) |-> 0]]

\* a variant of str_memset that clears nothing
str_memset_none(st) ==
    st

\* memset(msg_1033, 0, sizeof(*msg_1033))
str_memset(st) ==
    IF st.rc # RC_OK THEN st ELSE [st EXCEPT !.msg = Zero1033]

rtcm3_decode_1033(b, msg) ==
    str_get(b,
        str_get(b,
            str_get(b,
                str_get(b,
                    str_getbitu(b,
                        str_get(b,
                            str_getbitu(b,
                                str_memset(str_begin(b, msg, 1033)),
                                "stn_id", 12),
                            "ant_descriptor_counter", "ant_descriptor"),
                        "ant_setup_id", 8),
                    "ant_serial_num_counter", "ant_serial_num"),
                "rcv_descriptor_counter", "rcv_descriptor"),
            "rcv_fw_version_counter", "rcv_fw_version"),
        "rcv_serial_num_counter", "rcv_serial_num")

JunkString ==
    [i \in 0..(RTCM_MAX_STRING_LEN - 1) |-> 88]

Junk1007 ==
    [stn_id |-> 4000, ant_descriptor_counter |-> 9, ant_descriptor |-> JunkString,
     ant_setup_id |-> 200]

Junk1008 ==
    [msg_1007 |-> Junk1007, ant_serial_num_counter |-> 11,
     ant_serial_num |-> JunkString]

Junk1033 ==
    [stn_id |-> 4000, ant_descriptor_counter |-> 9, ant_descriptor |-> JunkString,
     ant_setup_id |-> 200, ant_serial_num_counter |-> 11,
     ant_serial_num |-> JunkString,
     rcv_descriptor_counter |-> 12, rcv_descriptor |-> JunkString,
     rcv_fw_version_counter |-> 13, rcv_fw_version |-> JunkString,
     rcv_serial_num_counter |-> 14, rcv_serial_num |-> JunkString]

\* no descriptor decoder has been called
StrIdle ==
    /\ msg_1007 = Zero1007
    /\ msg_1008 = Zero1008
    /\ msg_1033 = Zero1033

\* no lock time function has been called
LockIdle ==
    /\ lock_ind = 0
    /\ lock_time = 0

----------------------------------------------------------------------------
(* Buffers handed to the decoders.  The framing layer delivers the payload *)
(* of one frame; the fields below are laid out as RTCM 10403.3 lays them   *)
(* out, and the values are drawn from small sets.                          *)

BitOf(v, w, p) ==
    LET u == IF v < 0 THEN v + Pow2(w) ELSE v
    IN  (u \div Pow2(w - 1 - p)) % 2

Field(v, w) ==
    [p \in 1..w |-> BitOf(v, w, p - 1)]

\* n fields of w bits, field k holding f[k]
Pack(n, w, f) ==
    [p \in 1..(n * w) |-> BitOf(f[(p - 1) \div w], w, (p - 1) % w)]

MaxSats == 2
MaxSigs == 3
MaxPat == 3

SatPos(k) ==
    (7 * k + 2) % MSM_SATELLITE_MASK_SIZE

SigPos(k) ==
    (5 * k + 1) % MSM_SIGNAL_MASK_SIZE

\* cell mask pattern p at cell-mask index j
CellBit(p, j) ==
    IF p = 0 THEN 1
    ELSE IF (j + p) % ((p \div 2) + 2) = 0 THEN 1 ELSE 0

MsmLayout(num) ==
    IF num % 10 \in {MSM4, MSM5, MSM6, MSM7} THEN num % 10 ELSE MSM4

\* in: [num, tow, ns, ng, pat, var, pad]
MsmBits(in) ==
    LET t == MsmLayout(in.num)
        ext == t \in {MSM6, MSM7}
        rate == t \in {MSM5, MSM7}
        X == in.ns * in.ng
        fits == X <= MSM_MAX_CELLS
        C == IF fits
             THEN Cardinality({j \in 0..(X - 1) : CellBit(in.pat, j) = 1})
             ELSE 0
        N == IF fits THEN in.ns ELSE 0
        hit == IF C > 1 THEN 1 ELSE 0
        all == in.var = 7
        int_ms(r) == IF (in.var = 1 /\ r = 0) \/ all THEN 255 ELSE 70 + r
        sat_info(r) == (15 + 15 * r) % 16
        rough_mod(r) == (100 + 3 * r) % 1024
        rough_rate(r) == IF (in.var = 4 /\ r = 0) \/ all THEN -8192 ELSE 3 * r - 5
        fine_pr(k) == IF (in.var = 2 /\ k = hit) \/ all
                      THEN (IF ext THEN -524288 ELSE -16384)
                      ELSE 37 * k - 50
        fine_cp(k) == IF (in.var = 3 /\ k = hit) \/ all
                      THEN (IF ext THEN -8388608 ELSE -2097152)
                      ELSE 1000 - 300 * k
        lock(k) == IF ext THEN (640 + 13 * k) % 1024 ELSE (k + 1) % 16
        hca(k) == k % 2
        cnr(k) == IF (in.var = 6 /\ k = 0) \/ all THEN 0
                  ELSE IF ext THEN 500 + k ELSE 30 + (k % 32)
        fine_rate(k) == IF (in.var = 5 /\ k = 0) \/ all THEN -16384 ELSE 10 - 7 * k
    IN  Field(in.num, 12) \o Field(2749, 12) \o Field(in.tow, 30)
        \o Field(1, 1) \o Field(5, 3) \o Field(85, 7) \o Field(2, 2)
        \o Field(1, 2) \o Field(1, 1) \o Field(6, 3)
        \o [p \in 1..MSM_SATELLITE_MASK_SIZE |->
               IF \E k \in 0..(in.ns - 1) : SatPos(k) = p - 1 THEN 1 ELSE 0]
        \o [p \in 1..MSM_SIGNAL_MASK_SIZE |->
               IF \E k \in 0..(in.ng - 1) : SigPos(k) = p - 1 THEN 1 ELSE 0]
        \o (IF fits THEN [p \in 1..X |-> CellBit(in.pat, p - 1)] ELSE << >>)
        \o Pack(N, 8, [k \in 0..63 |-> int_ms(k)])
        \o (IF rate THEN Pack(N, 4, [k \in 0..63 |-> sat_info(k)]) ELSE << >>)
        \o Pack(N, 10, [k \in 0..63 |-> rough_mod(k)])
        \o (IF rate THEN Pack(N, 14, [k \in 0..63 |-> rough_rate(k)]) ELSE << >>)
        \o Pack(C, IF ext THEN 20 ELSE 15, [k \in 0..63 |-> fine_pr(k)])
        \o Pack(C, IF ext THEN 24 ELSE 22, [k \in 0..63 |-> fine_cp(k)])
        \o Pack(C, IF ext THEN 10 ELSE 4, [k \in 0..63 |-> lock(k)])
        \o Pack(C, 1, [k \in 0..63 |-> hca(k)])
        \o Pack(C, IF ext THEN 10 ELSE 6, [k \in 0..63 |-> cnr(k)])
        \o (IF rate THEN Pack(C, 15, [k \in 0..63 |-> fine_rate(k)]) ELSE << >>)

MsmBuffer(in) ==
    [bits |-> MsmBits(in), pad |-> in.pad]

\* message numbers: every constellation range, each MSM type, numbers
\* beside the ranges and numbers of other messages
MsmNums ==
    {1074, 1075, 1076, 1077, 1084, 1085, 1086, 1087, 1094, 1097, 1104, 1105,
     1114, 1116, 1124, 1125, 1126, 1127, 1134, 1137,
     1064, 1070, 1071, 1073, 1078, 1080, 1088, 1130, 1138, 1144, 1147, 1004}

\* raw 30-bit epoch times: both maxima and their successors, the Beidou
\* wrap-around threshold and its neighbours, and (for GLONASS) day-of-week
\* bits above the 27-bit time of day
MsmTows ==
    {0, 86400999, 86401000, 604799999, 604800000,
     C_2P30 - 14001, C_2P30 - 14000, C_2P30 - 5000, C_2P30 - 1,
     134217728 + 5, 3 * 134217728 + 86400999}

MsmDataNums ==
    {1074, 1075, 1076, 1077, 1084, 1085, 1086, 1087, 1124, 1127}

MsmDataShapes ==
    {<<1, 1>>, <<MaxSats, MaxSigs>>, <<1, MaxSigs>>, <<0, 1>>}

\* num_sats * num_sigs beyond MSM_MAX_CELLS: 72, 2048, 260, 66, 65
MsmBigShapes ==
    {<<9, 8>>, <<64, 32>>, <<13, 20>>, <<33, 2>>, <<13, 5>>}

\* num_sats * num_sigs = MSM_MAX_CELLS
MsmFullShapes ==
    {<<8, 8>>, <<64, 1>>, <<2, 32>>}

MsmDataTow ==
    2 * 134217728 + 43200000

MsmInputs ==
    {[num |-> n, tow |-> t, ns |-> 1, ng |-> 1, pat |-> 0, var |-> 0,
      pad |-> p, prior |-> "junk"] :
        n \in MsmNums, t \in MsmTows, p \in {0, 1}}
    \cup
    {[num |-> n, tow |-> t, ns |-> s[1], ng |-> s[2], pat |-> 0, var |-> 0,
      pad |-> p, prior |-> "junk"] :
        n \in {1074, 1075, 1076, 1077, 1084, 1127, 1078},
        t \in {0, 604800000, C_2P30 - 5000},
        s \in MsmBigShapes, p \in {0, 1}}
    \cup
    {[num |-> n, tow |-> MsmDataTow, ns |-> s[1], ng |-> s[2],
      pat |-> c, var |-> 0, pad |-> 1, prior |-> "junk"] :
        n \in {1074, 1077, 1085, 1126}, s \in MsmFullShapes, c \in {0, 2}}
    \cup
    {[num |-> n, tow |-> MsmDataTow, ns |-> s[1], ng |-> s[2],
      pat |-> c, var |-> v, pad |-> 0, prior |-> "junk"] :
        n \in MsmDataNums, s \in MsmDataShapes, c \in 0..MaxPat, v \in 0..7}
    \cup
    {[num |-> n, tow |-> MsmDataTow, ns |-> s[1], ng |-> s[2],
      pat |-> c, var |-> 0, pad |-> 1, prior |-> "zero"] :
        n \in MsmDataNums, s \in MsmDataShapes, c \in 0..MaxPat}

----------------------------------------------------------------------------
(* The calls.                                                              *)

InitMsm ==
    \E in \in MsmInputs :
        /\ buff = MsmBuffer(in)
        /\ msm_msg = MsmPrior(in.prior)
        /\ call = "none"
        /\ rc = "none"
        /\ bit = 0
        /\ oob = {}
        /\ obs_msg = ObsZeroMsg
        /\ msg_1230 = Zero1230
        /\ msg_4062 = Zero4062
        /\ StrIdle
        /\ LockIdle

\* r is what the decoder returned and wrote
MsmCall(name, r) ==
    /\ call = "none"
    /\ call' = name
    /\ rc' = r.rc
    /\ bit' = r.bit
    /\ oob' = r.oob
    /\ msm_msg' \in MsmStrayOutcomes(r.msg, r.oob)
    /\ UNCHANGED <<buff, obs_msg, msg_1230, msg_4062, str_vars, lock_vars>>

rtcm3_decode_msm4 ==
    MsmCall("msm4", rtcm3_decode_msm_internal(buff, MSM4, msm_msg))

rtcm3_decode_msm5 ==
    MsmCall("msm5", rtcm3_decode_msm_internal(buff, MSM5, msm_msg))

rtcm3_decode_msm6 ==
    MsmCall("msm6", rtcm3_decode_msm_internal(buff, MSM6, msm_msg))

rtcm3_decode_msm7 ==
    MsmCall("msm7", rtcm3_decode_msm_internal(buff, MSM7, msm_msg))

NextMsm ==
    \/ rtcm3_decode_msm4
    \/ rtcm3_decode_msm5
    \/ rtcm3_decode_msm6
    \/ rtcm3_decode_msm7

SpecMsm ==
    InitMsm /\ [][NextMsm]_vars

----------------------------------------------------------------------------
(* Buffers of the legacy observables.                                      *)

MaxNSat == 3

ObsNums ==
    {1001, 1002, 1003, 1004, 1010, 1012}

\* the layout a buffer of number num is written in
ObsLayout(num) ==
    IF num \in ObsNums THEN num ELSE 1004

ObsIsGlo(layout) ==
    layout \in {1010, 1012}

\* the bits of satellite i; in: [num, tow, nsat, var, pad, prior]
ObsSatBits(in, i) ==
    LET L == ObsLayout(in.num)
        all == in.var = 7
        first == i = 0
        fcn == IF in.var = 5 /\ first THEN 21
               ELSE IF (in.var = 6 /\ first) \/ all THEN 31
               ELSE IF first THEN 20
               ELSE (7 * i) % 21
        l1_pr == IF (in.var = 3 /\ first) \/ all THEN 524288 ELSE 1000000 + 17 * i
        diff1 == IF (in.var = 1 /\ first) \/ all THEN -524288 ELSE 1234 - 5000 * i
        cnr1 == IF (in.var = 4 /\ first) \/ all THEN 0 ELSE 160 + i
        l2_pr == IF (in.var = 3 /\ first) \/ all THEN -8192 ELSE i - 300
        diff2 == IF ((in.var = 2 \/ in.var = 6) /\ first) \/ all
                 THEN -524288 ELSE 777 - i
        cnr2 == IF ((in.var = 4 \/ in.var = 2) /\ first) \/ all
                THEN 0 ELSE 120 + i
        l1 == IF ObsIsGlo(L)
              THEN Field(i % 2, 1) \o Field(fcn, 5) \o Field(l1_pr, 25)
                   \o Field(diff1, 20) \o Field((20 + 50 * i) % 128, 7)
              ELSE Field(i % 2, 1) \o Field(l1_pr, 24)
                   \o Field(diff1, 20) \o Field((20 + 50 * i) % 128, 7)
        ext == IF L \in {1002, 1004} THEN Field(200 + i, 8) \o Field(cnr1, 8)
               ELSE IF ObsIsGlo(L) THEN Field(100 + i, 7) \o Field(cnr1, 8)
               ELSE << >>
        l2 == IF L \in {1003, 1004, 1012}
              THEN Field((i + 2) % 4, 2) \o Field(l2_pr, 14)
                   \o Field(diff2, 20) \o Field(127 - i, 7)
              ELSE << >>
        ext2 == IF L \in {1004, 1012} THEN Field(cnr2, 8) ELSE << >>
    IN  Field(1 + 5 * i, 6) \o l1 \o ext \o l2 \o ext2

RECURSIVE ObsSatsBits(_, _)
ObsSatsBits(in, i) ==
    IF i >= in.nsat THEN << >>
    ELSE ObsSatBits(in, i) \o ObsSatsBits(in, i + 1)

\* a header without satellite blocks announces long satellites read from
\* the fill
ObsBits(in) ==
    Field(in.num, 12) \o Field(1234, 12)
    \o Field(in.tow, IF ObsIsGlo(ObsLayout(in.num)) THEN 27 ELSE 30)
    \o Field(1, 1) \o Field(IF in.long THEN 31 ELSE in.nsat, 5)
    \o Field(0, 1) \o Field(5, 3)
    \o ObsSatsBits(in, 0)

ObsBuffer(in) ==
    [bits |-> ObsBits(in), pad |-> in.pad]

\* epoch times: both maxima and their successors, and the largest 27-bit
\* value; a 27-bit field keeps the low 27 bits
ObsTows ==
    {0, 86400999, 86401000, 134217727, 604799999, 604800000}

ObsInputs ==
    {[num |-> n, tow |-> t, nsat |-> 1, var |-> 0, pad |-> p, prior |-> q,
      long |-> FALSE] :
        n \in ObsNums \cup {1005, 1011},
        t \in ObsTows, p \in {0, 1}, q \in {"zero", "junk"}}
    \cup
    {[num |-> n, tow |-> 43200000, nsat |-> k, var |-> v, pad |-> p,
      prior |-> q, long |-> FALSE] :
        n \in ObsNums, k \in 0..MaxNSat, v \in 0..7, p \in {0, 1},
        q \in {"zero", "junk"}}
    \cup
    {[num |-> n, tow |-> 43200000, nsat |-> 0, var |-> 0, pad |-> p,
      prior |-> "junk", long |-> TRUE] :
        n \in {1001, 1004, 1012}, p \in {0, 1}}

InitObs ==
    \E in \in ObsInputs :
        /\ buff = ObsBuffer(in)
        /\ obs_msg = ObsPrior(in.prior)
        /\ call = "none"
        /\ rc = "none"
        /\ bit = 0
        /\ oob = {}
        /\ msm_msg = MsmZeroMsg
        /\ msg_1230 = Zero1230
        /\ msg_4062 = Zero4062
        /\ StrIdle
        /\ LockIdle

ObsCall(name, r) ==
    /\ call = "none"
    /\ call' = name
    /\ rc' = r.rc
    /\ bit' = r.bit
    /\ obs_msg' = r.msg
    /\ UNCHANGED <<buff, oob, msm_msg, msg_1230, msg_4062, str_vars, lock_vars>>

call_rtcm3_decode_1001 ==
    ObsCall("1001", rtcm3_decode_1001(buff, obs_msg))

call_rtcm3_decode_1002 ==
    ObsCall("1002", rtcm3_decode_1002(buff, obs_msg))

call_rtcm3_decode_1003 ==
    ObsCall("1003", rtcm3_decode_1003(buff, obs_msg))

call_rtcm3_decode_1004 ==
    ObsCall("1004", rtcm3_decode_1004(buff, obs_msg))

call_rtcm3_decode_1010 ==
    ObsCall("1010", rtcm3_decode_1010(buff, obs_msg))

call_rtcm3_decode_1012 ==
    ObsCall("1012", rtcm3_decode_1012(buff, obs_msg))

NextObs ==
    \/ call_rtcm3_decode_1001
    \/ call_rtcm3_decode_1002
    \/ call_rtcm3_decode_1003
    \/ call_rtcm3_decode_1004
    \/ call_rtcm3_decode_1010
    \/ call_rtcm3_decode_1012

SpecObs ==
    InitObs /\ [][NextObs]_vars

----------------------------------------------------------------------------
(* Buffers of 1230.                                                        *)

\* the four bias fields after the mask, as written
CpbValues ==
    {<<-32768, 32767, -1, 1>>, <<100, -200, 0, -400>>}

\* in: [num, ind, res, mask, cpb, pad, prior]
Bits1230(in) ==
    Field(in.num, 12) \o Field(321, 12) \o Field(in.ind, 1) \o Field(in.res, 3)
    \o Field(in.mask, 4)
    \o Field(in.cpb[1], 16) \o Field(in.cpb[2], 16)
    \o Field(in.cpb[3], 16) \o Field(in.cpb[4], 16)

Inputs1230 ==
    [num : {1230, 1229, 1012}, ind : {0, 1}, res : {0, 5, 7}, mask : 0..15,
     cpb : CpbValues, pad : {0, 1}, prior : {"zero", "junk"}]

Init1230 ==
    \E in \in Inputs1230 :
        /\ buff = [bits |-> Bits1230(in), pad |-> in.pad]
        /\ msg_1230 = Prior1230(in.prior)
        /\ call = "none"
        /\ rc = "none"
        /\ bit = 0
        /\ oob = {}
        /\ msm_msg = MsmZeroMsg
        /\ obs_msg = ObsZeroMsg
        /\ msg_4062 = Zero4062
        /\ StrIdle
        /\ LockIdle

call_rtcm3_decode_1230 ==
    /\ call = "none"
    /\ LET r == rtcm3_decode_1230(buff, msg_1230)
       IN  /\ call' = "1230"
           /\ rc' = r.rc
           /\ bit' = r.bit
           /\ msg_1230' = r.msg
    /\ UNCHANGED <<buff, oob, msm_msg, obs_msg, msg_4062, str_vars, lock_vars>>

Next1230 ==
    call_rtcm3_decode_1230

Spec1230 ==
    Init1230 /\ [][Next1230]_vars

----------------------------------------------------------------------------
(* Buffers of 4062.                                                        *)

MaxData == 3

\* payload byte i
SwiftByte(i) ==
    (37 * i + 11) % 256

\* in: [num, res, typ, snd, len, cut, pad, prior]; a cut buffer ends after
\* the reserved bits and the rest is read from the fill
Bits4062(in) ==
    IF in.cut
    THEN Field(in.num, 12) \o Field(in.res, 4)
    ELSE Field(in.num, 12) \o Field(in.res, 4) \o Field(in.typ, 16)
         \o Field(in.snd, 16) \o Field(in.len, 8)
         \o Pack(in.len, 8, [i \in 0..(in.len - 1) |-> SwiftByte(i)])

Inputs4062 ==
    [num : {4062, 4061, 1230}, res : {0, 1, 2, 8, 15}, typ : {0, 258, 65535},
     snd : {0, 4660}, len : 0..MaxData, cut : {FALSE}, pad : {0, 1},
     prior : {"zero", "junk"}]
    \cup
    [num : {4062}, res : {0, 2}, typ : {0}, snd : {0}, len : {0}, cut : {TRUE},
     pad : {0, 1}, prior : {"zero", "junk"}]

Init4062 ==
    \E in \in Inputs4062 :
        /\ buff = [bits |-> Bits4062(in), pad |-> in.pad]
        /\ msg_4062 = Prior4062(in.prior)
        /\ call = "none"
        /\ rc = "none"
        /\ bit = 0
        /\ oob = {}
        /\ msm_msg = MsmZeroMsg
        /\ obs_msg = ObsZeroMsg
        /\ msg_1230 = Zero1230
        /\ StrIdle
        /\ LockIdle

\* r is what the decoder returned and wrote
Call4062(r) ==
    /\ call = "none"
    /\ call' = "4062"
    /\ rc' = r.rc
    /\ bit' = r.bit
    /\ msg_4062' = r.msg
    /\ UNCHANGED <<buff, oob, msm_msg, obs_msg, msg_1230, str_vars, lock_vars>>

call_rtcm3_decode_4062 ==
    Call4062(rtcm3_decode_4062(buff, msg_4062))

Next4062 ==
    call_rtcm3_decode_4062

Spec4062 ==
    Init4062 /\ [][Next4062]_vars

----------------------------------------------------------------------------
(* Buffers of the descriptors: a 1033, whose first fields are a 1008 and a *)
(* 1007.                                                                   *)

MaxStr == 2

\* character i of string j
StrChar(j, i) ==
    (65 + 16 * j + i) % 256

\* the length byte of string j and its characters; a string longer than
\* RTCM_MAX_STRING_LEN has none in the buffer
StrBits(lens, j) ==
    IF lens[j] > RTCM_MAX_STRING_LEN
    THEN Field(lens[j], 8)
    ELSE Field(lens[j], 8)
         \o Pack(lens[j], 8, [i \in 0..(lens[j] - 1) |-> StrChar(j, i)])

\* in: [num, stn, lens, setup, pad, prior]
BitsStr(in) ==
    Field(in.num, 12) \o Field(in.stn, 12) \o StrBits(in.lens, 1)
    \o Field(in.setup, 8) \o StrBits(in.lens, 2) \o StrBits(in.lens, 3)
    \o StrBits(in.lens, 4) \o StrBits(in.lens, 5)

\* two short strings and three that are empty or short, or four of one
\* character and one of length n
StrLens ==
    {l \in [1..5 -> 0..MaxStr] : \A j \in 3..5 : l[j] \in {0, MaxStr}}
    \cup {[j \in 1..5 |-> IF j = k THEN n ELSE 1] :
             k \in 1..5, n \in {RTCM_MAX_STRING_LEN, RTCM_MAX_STRING_LEN + 1, 255}}

InputsStr ==
    [num : {1007, 1008, 1033, 1006}, stn : {2003}, lens : StrLens, setup : {7},
     pad : {0, 1}, prior : {"zero", "junk"}]

InitStr ==
    \E in \in InputsStr :
        /\ buff = [bits |-> BitsStr(in), pad |-> in.pad]
        /\ msg_1007 = (IF in.prior = "zero" THEN Zero1007 ELSE Junk1007)
        /\ msg_1008 = (IF in.prior = "zero" THEN Zero1008 ELSE Junk1008)
        /\ msg_1033 = (IF in.prior = "zero" THEN Zero1033 ELSE Junk1033)
        /\ call = "none"
        /\ rc = "none"
        /\ bit = 0
        /\ oob = {}
        /\ msm_msg = MsmZeroMsg
        /\ obs_msg = ObsZeroMsg
        /\ msg_1230 = Zero1230
        /\ msg_4062 = Zero4062
        /\ LockIdle

\* st is what the decoder returned and wrote
CallStr(name, st) ==
    /\ call = "none"
    /\ call' = name
    /\ rc' = st.rc
    /\ bit' = st.bit
    /\ oob' = st.oob
    /\ UNCHANGED <<buff, msm_msg, obs_msg, msg_1230, msg_4062, lock_vars>>

call_rtcm3_decode_1007 ==
    /\ CallStr("1007", rtcm3_decode_1007(buff, msg_1007))
    /\ msg_1007' = rtcm3_decode_1007(buff, msg_1007).msg
    /\ UNCHANGED <<msg_1008, msg_1033>>

call_rtcm3_decode_1008 ==
    /\ CallStr("1008", rtcm3_decode_1008(buff, msg_1008))
    /\ msg_1008' = rtcm3_decode_1008(buff, msg_1008).msg
    /\ UNCHANGED <<msg_1007, msg_1033>>

call_rtcm3_decode_1033 ==
    /\ CallStr("1033", rtcm3_decode_1033(buff, msg_1033))
    /\ msg_1033' = rtcm3_decode_1033(buff, msg_1033).msg
    /\ UNCHANGED <<msg_1007, msg_1008>>

NextStr ==
    \/ call_rtcm3_decode_1007
    \/ call_rtcm3_decode_1008
    \/ call_rtcm3_decode_1033

SpecStr ==
    InitStr /\ [][NextStr]_vars

----------------------------------------------------------------------------
(* The lock time functions on every indicator of 10 bits, and the legacy   *)
(* signal blocks on a buffer whose lock indicator is the 7 bits at         *)
(* LockBit.                                                                *)

\* where the lock indicator of a GLONASS L1 block at bit 0 begins
LockBit ==
    1 + 5 + 25 + 20

InitLock ==
    \E l \in 0..(Pow2(10) - 1), pad \in {0, 1} :
        /\ lock_ind = l
        /\ lock_time = 0
        /\ buff = [bits |-> [p \in 1..LockBit |-> pad] \o Field(l % Pow2(7), 7),
                   pad |-> pad]
        /\ call = "none"
        /\ rc = "none"
        /\ bit = 0
        /\ oob = {}
        /\ msm_msg = MsmZeroMsg
        /\ obs_msg = ObsZeroMsg
        /\ msg_1230 = Zero1230
        /\ msg_4062 = Zero4062
        /\ StrIdle

\* a function was applied to lock_ind, or a signal block decoded, with result t
CallLock(name, t) ==
    /\ call = "none"
    /\ call' = name
    /\ lock_time' = t
    /\ UNCHANGED <<buff, rc, bit, oob, msm_msg, obs_msg, msg_1230, msg_4062,
                   str_vars, lock_ind>>

\* uint8_t lock
call_from_lock_ind ==
    /\ lock_ind < Pow2(8)
    /\ CallLock("from_lock_ind", from_lock_ind(lock_ind))

\* uint8_t lock
call_rtcm3_decode_lock_time ==
    /\ lock_ind < Pow2(8)
    /\ CallLock("rtcm3_decode_lock_time", rtcm3_decode_lock_time(lock_ind))

\* uint16_t lock
call_from_msm_lock_ind_ext ==
    CallLock("from_msm_lock_ind_ext", from_msm_lock_ind_ext(lock_ind))

\* the block begins 1 + 24 + 20 bits ahead of its lock indicator
call_decode_basic_gps_l1_freq_data ==
    /\ lock_ind < Pow2(7)
    /\ CallLock("decode_basic_gps_l1_freq_data",
                decode_basic_gps_l1_freq_data(
                    buff, obs_locals(ObsJunkSat, LockBit - 45)).sat.obs[L1_FREQ].lock)

\* the block begins 1 + 5 + 25 + 20 bits ahead of its lock indicator
call_decode_basic_glo_l1_freq_data ==
    /\ lock_ind < Pow2(7)
    /\ CallLock("decode_basic_glo_l1_freq_data",
                decode_basic_glo_l1_freq_data(
                    buff, obs_locals(ObsJunkSat, LockBit - 51)).sat.obs[L1_FREQ].lock)

\* the block begins 2 + 14 + 20 bits ahead of its lock indicator
call_decode_basic_l2_freq_data ==
    /\ lock_ind < Pow2(7)
    /\ CallLock("decode_basic_l2_freq_data",
                decode_basic_l2_freq_data(
                    buff, obs_locals(ObsJunkSat, LockBit - 36)).sat.obs[L2_FREQ].lock)

NextLock ==
    \/ call_from_lock_ind
    \/ call_rtcm3_decode_lock_time
    \/ call_from_msm_lock_ind_ext
    \/ call_decode_basic_gps_l1_freq_data
    \/ call_decode_basic_glo_l1_freq_data
    \/ call_decode_basic_l2_freq_data

SpecLock ==
    InitLock /\ [][NextLock]_vars

----------------------------------------------------------------------------
(* Any decoder on any buffer.                                              *)

Init ==
    InitMsm \/ InitObs \/ Init1230 \/ Init4062 \/ InitStr \/ InitLock

Next ==
    NextMsm \/ NextObs \/ Next1230 \/ Next4062 \/ NextStr \/ NextLock

Spec ==
    Init /\ [][Next]_vars


----------------------------------------------------------------------------
(* What the buffer of a state holds, read at the offsets of RTCM 10403.3.  *)

MsmCalls ==
    {"msm4", "msm5", "msm6", "msm7"}

MsmTypeOf(c) ==
    CASE c = "msm4" -> MSM4
      [] c = "msm5" -> MSM5
      [] c = "msm6" -> MSM6
      [] c = "msm7" -> MSM7

NumOf(b) ==
    rtcm_getbitu(b, 0, 12)

\* the message numbers of MSM type t in the seven constellation ranges
MsmNumbers(t) ==
    {1070 + 10 * c + t : c \in 0..6}

IsGloNum(n) ==
    n \in 1081..1087

IsBdsNum(n) ==
    n \in 1121..1127

PopSat(b) ==
    Cardinality({i \in 0..63 : getbit(b, 73 + i) = 1})

PopSig(b) ==
    Cardinality({i \in 0..31 : getbit(b, 137 + i) = 1})

\* the set cell mask bits among the first num_sats * num_sigs
CellSet(b) ==
    {j \in 0..(PopSat(b) * PopSig(b) - 1) : getbit(b, 169 + j) = 1}

\* the number of set cell mask bits before bit j: the index of j's cell
CellRank(cs, j) ==
    Cardinality({x \in cs : x < j})

\* The raw fields of cell k, of satellite row sat, in an MSM of type t with
\* N satellites and C cells whose header ends at bit sb.
MsmRaw(b, t, N, C, sb, sat, k) ==
    LET rate == t \in {MSM5, MSM7}
        ext == t \in {MSM6, MSM7}
        gb == sb + (IF rate THEN 36 ELSE 18) * N
        wpr == IF ext THEN 20 ELSE 15
        wcp == IF ext THEN 24 ELSE 22
        wlk == IF ext THEN 10 ELSE 4
        wcn == IF ext THEN 10 ELSE 6
    IN  [integer_ms |-> rtcm_getbitu(b, sb + 8 * sat, 8),
         rough_mod |-> rtcm_getbitu(b, sb + (IF rate THEN 12 ELSE 8) * N + 10 * sat, 10),
         rough_rate |-> IF rate THEN rtcm_getbits(b, sb + 22 * N + 14 * sat, 14) ELSE 0,
         fine_pr |-> rtcm_getbits(b, gb + wpr * k, wpr),
         fine_cp |-> rtcm_getbits(b, gb + wpr * C + wcp * k, wcp),
         lock |-> rtcm_getbitu(b, gb + (wpr + wcp) * C + wlk * k, wlk),
         hca |-> rtcm_getbitu(b, gb + (wpr + wcp + wlk) * C + k, 1),
         cnr |-> rtcm_getbitu(b, gb + (wpr + wcp + wlk + 1) * C + wcn * k, wcn),
         fine_rate |-> IF rate
                       THEN rtcm_getbits(b, gb + (wpr + wcp + wlk + 1 + wcn) * C + 15 * k, 15)
                       ELSE 0,
         pr_sentinel |-> IF ext THEN -524288 ELSE -16384,
         cp_sentinel |-> IF ext THEN -8388608 ELSE -2097152]

\* the raw fields of the cell of set mask bit j in the buffer of the state
CellRaw(t, N, G, cs, j) ==
    MsmRaw(buff, t, N, Cardinality(cs), 169 + N * G, j \div G, CellRank(cs, j))

\* the bits of the satellite and signal blocks of an MSM of type t
MsmBlockBits(t, N, C) ==
    CASE t = MSM4 -> 18 * N + 48 * C
      [] t = MSM5 -> 36 * N + 63 * C
      [] t = MSM6 -> 18 * N + 65 * C
      [] t = MSM7 -> 36 * N + 80 * C

MsmOk ==
    call \in MsmCalls /\ rc = RC_OK

\* the header was read: the number matched the requested type
MsmHeaderRead ==
    call \in MsmCalls /\ rc # RC_MESSAGE_TYPE_MISMATCH

MsmTowMax(n) ==
    IF IsGloNum(n) THEN 86400999 ELSE 604799999

----------------------------------------------------------------------------
(* C1: an MSM4..7 call whose message number matches the requested type and *)
(* a known constellation, with tow_ms within the constellation's maximum,  *)
(* returns INVALID_MESSAGE whenever popcount(satellite_mask) *              *)
(* popcount(signal_mask) > 64, whatever the rest of the buffer holds.      *)
C1_TooManyCellsInvalid ==
    (/\ call \in MsmCalls
     /\ NumOf(buff) \in MsmNumbers(MsmTypeOf(call))
     /\ msm_msg.header.tow_ms <= MsmTowMax(NumOf(buff))
     /\ PopSat(buff) * PopSig(buff) > 64)
    => rc = RC_INVALID_MESSAGE

\* the product is 2048, whose low eight bits are zero
C1_Witness ==
    /\ call \in MsmCalls
    /\ NumOf(buff) \in MsmNumbers(MsmTypeOf(call))
    /\ msm_msg.header.tow_ms <= MsmTowMax(NumOf(buff))
    /\ PopSat(buff) * PopSig(buff) = 2048
    /\ rc = RC_INVALID_MESSAGE

(* C2: an MSM decode that returns OK writes exactly num_cells =            *)
(* popcount(cell_mask[0 .. num_sats*num_sigs-1]) signal entries, with      *)
(* num_cells <= num_sats*num_sigs <= 64; entry k is the cell of the k-th   *)
(* set mask bit in row-major order, built from the k-th value of each      *)
(* signal-block field and the rough values of that bit's satellite; clear  *)
(* mask bits consume no signal-block bits and produce no entry.            *)
C2_CellsInMaskOrder ==
    [][(call' \in MsmCalls /\ rc' = RC_OK) =>
        LET t == MsmTypeOf(call')
            N == PopSat(buff)
            G == PopSig(buff)
            cs == CellSet(buff)
            C == Cardinality(cs)
        IN  /\ C <= N * G
            /\ N * G <= 64
            /\ bit' = 169 + N * G + MsmBlockBits(t, N, C)
            /\ \A k \in 0..63 :
                 k >= C => msm_msg'.signals[k] = msm_msg.signals[k]
            /\ \A j \in cs :
                 LET k == CellRank(cs, j)
                     raw == CellRaw(t, N, G, cs, j)
                     e == msm_msg'.signals[k]
                     rough == 1024 * raw.integer_ms + raw.rough_mod
                 IN  /\ e.flags.valid_pr =>
                           e.pseudorange_ms = [rough |-> rough, fine |-> raw.fine_pr]
                     /\ e.flags.valid_cp =>
                           e.carrier_phase_ms = [rough |-> rough, fine |-> raw.fine_cp]
                     /\ e.flags.valid_dop =>
                           e.range_rate_m_s = 10000 * raw.rough_rate + raw.fine_rate
                     /\ e.flags.valid_cnr =>
                           e.cnr = (IF t \in {MSM6, MSM7} THEN raw.cnr ELSE 16 * raw.cnr)
                     /\ e.flags.valid_lock
                     /\ e.lock_time_s =
                           (IF t \in {MSM6, MSM7}
                            THEN from_msm_lock_ind_ext(raw.lock)
                            ELSE rtcm3_decode_lock_time(raw.lock))
                     /\ e.hca_indicator = (raw.hca = 1)
                     /\ e # msm_msg.signals[k]]_vars

\* several cells, the first mask bit clear, some mask bit clear after a set
\* one, every flag of the last cell set
C2_Witness ==
    /\ MsmOk
    /\ Cardinality(CellSet(buff)) >= 3
    /\ 0 \notin CellSet(buff)
    /\ Cardinality(CellSet(buff)) < PopSat(buff) * PopSig(buff)
    /\ msm_msg.signals[2].flags.valid_pr
    /\ msm_msg.signals[2].flags.valid_dop
    /\ msm_msg.signals[3] = MsmJunkSignal

(* C3: after an MSM decode that returns OK, for each output cell valid_pr  *)
(* holds iff the satellite's integer_ms is not 255 and the fine            *)
(* pseudorange is not its sentinel (-2^14, extended -2^19); valid_cp holds *)
(* iff integer_ms is not 255 and the fine phase range is not its sentinel  *)
(* (-2^21, extended -2^23); pseudorange_ms and carrier_phase_ms of an      *)
(* invalid cell are 0.                                                     *)
C3_RangeValidity ==
    MsmOk =>
        LET t == MsmTypeOf(call)
            N == PopSat(buff)
            G == PopSig(buff)
            cs == CellSet(buff)
        IN  \A j \in cs :
                LET raw == CellRaw(t, N, G, cs, j)
                    e == msm_msg.signals[CellRank(cs, j)]
                IN  /\ e.flags.valid_pr =
                          (raw.integer_ms # 255 /\ raw.fine_pr # raw.pr_sentinel)
                    /\ e.flags.valid_cp =
                          (raw.integer_ms # 255 /\ raw.fine_cp # raw.cp_sentinel)
                    /\ ~e.flags.valid_pr => e.pseudorange_ms = MsmZero
                    /\ ~e.flags.valid_cp => e.carrier_phase_ms = MsmZero

\* a satellite whose rough range is invalid, with a cell whose fine values
\* are not sentinels, beside a satellite whose cell is valid
C3_Witness ==
    /\ MsmOk
    /\ LET t == MsmTypeOf(call)
           N == PopSat(buff)
           G == PopSig(buff)
           cs == CellSet(buff)
       IN  /\ \E j \in cs :
                 LET raw == CellRaw(t, N, G, cs, j)
                     e == msm_msg.signals[CellRank(cs, j)]
                 IN  /\ raw.integer_ms = 255
                     /\ raw.fine_pr # raw.pr_sentinel
                     /\ raw.fine_cp # raw.cp_sentinel
                     /\ ~e.flags.valid_pr
                     /\ ~e.flags.valid_cp
           /\ \E j \in cs :
                 /\ msm_msg.signals[CellRank(cs, j)].flags.valid_pr
                 /\ msm_msg.signals[CellRank(cs, j)].flags.valid_cp

(* C4: after an MSM4 or MSM6 decode that returns OK, valid_dop is false    *)
(* and range_rate_m_s is 0 on every output cell and no range-rate bits are *)
(* consumed; after MSM5/MSM7, valid_dop of a cell holds iff the            *)
(* satellite's rough rate is not -8192 and the cell's fine rate is not     *)
(* -2^14.                                                                  *)
C4_DopplerValidity ==
    MsmOk =>
        LET t == MsmTypeOf(call)
            N == PopSat(buff)
            G == PopSig(buff)
            cs == CellSet(buff)
        IN  /\ t \in {MSM4, MSM6} =>
                  bit = 169 + N * G + 18 * N
                            + (IF t = MSM4 THEN 48 ELSE 65) * Cardinality(cs)
            /\ \A j \in cs :
                  LET raw == CellRaw(t, N, G, cs, j)
                      e == msm_msg.signals[CellRank(cs, j)]
                  IN  IF t \in {MSM4, MSM6}
                      THEN ~e.flags.valid_dop /\ e.range_rate_m_s = 0
                      ELSE e.flags.valid_dop =
                              (raw.rough_rate # -8192 /\ raw.fine_rate # -16384)

\* an MSM6 decode with cells where the record held valid_dop before
C4_Witness ==
    /\ call = "msm6"
    /\ rc = RC_OK
    /\ Cardinality(CellSet(buff)) >= 2
    /\ msm_msg.signals[5] = MsmJunkSignal
    /\ ~msm_msg.signals[1].flags.valid_dop

(* C5: for Beidou the 30-bit raw epoch time is normalised before the range *)
(* check: raw >= 2^30 - 14000 is stored as 604800000 - (2^30 - raw), which *)
(* lies in [604786000, 604799999] and never fails the range check; raw     *)
(* below the threshold is stored unchanged.  For every other constellation *)
(* the raw value is stored without normalisation.                          *)
C5_BdsTowNormalised ==
    MsmHeaderRead =>
        LET n == NumOf(buff)
            raw == rtcm_getbitu(buff, 24, 30)
            tow == msm_msg.header.tow_ms
        IN  IF IsBdsNum(n)
            THEN IF raw >= 1073741824 - 14000
                 THEN /\ tow = 604800000 - (1073741824 - raw)
                      /\ tow >= 604786000
                      /\ tow <= 604799999
                      /\ (rc = RC_INVALID_MESSAGE =>
                              PopSat(buff) * PopSig(buff) > 64)
                 ELSE tow = raw
            ELSE IF IsGloNum(n)
            THEN tow = rtcm_getbitu(buff, 27, 27)
            ELSE tow = raw

\* raw = 2^30 - 5000 decodes to 604795000 and the message is accepted
C5_Witness ==
    /\ MsmOk
    /\ IsBdsNum(NumOf(buff))
    /\ rtcm_getbitu(buff, 24, 30) = 1073741824 - 5000
    /\ msm_msg.header.tow_ms = 604795000

(* C6: rtcm3_decode_msmN returns MESSAGE_TYPE_MISMATCH iff the 12-bit      *)
(* message number is not an MSM-N number of a recognised constellation     *)
(* range; the check precedes the TOW and cell-count checks.                *)
C6_MismatchIffWrongNumber ==
    call \in MsmCalls =>
        ((rc = RC_MESSAGE_TYPE_MISMATCH) <=>
            (NumOf(buff) \notin MsmNumbers(MsmTypeOf(call))))

\* a wrong number in front of an epoch time beyond the maximum and of
\* masks with more than 64 cells
C6_Witness ==
    /\ call \in MsmCalls
    /\ rc = RC_MESSAGE_TYPE_MISMATCH
    /\ NumOf(buff) \in 1071..1137
    /\ rtcm_getbitu(buff, 24, 30) = 604800000
    /\ PopSat(buff) * PopSig(buff) > 64

----------------------------------------------------------------------------
(* What a legacy buffer holds, read at the offsets of RTCM 10403.3.        *)

ObsCalls ==
    {"1001", "1002", "1003", "1004", "1010", "1012"}

ObsNumOf(c) ==
    CASE c = "1001" -> 1001
      [] c = "1002" -> 1002
      [] c = "1003" -> 1003
      [] c = "1004" -> 1004
      [] c = "1010" -> 1010
      [] c = "1012" -> 1012

ObsGloCalls ==
    {"1010", "1012"}

\* the epoch time decoder c reads: 27 bits for GLONASS, else 30
ObsTowOf(b, c) ==
    IF c \in ObsGloCalls THEN rtcm_getbitu(b, 24, 27) ELSE rtcm_getbitu(b, 24, 30)

ObsTowMax(c) ==
    IF c \in ObsGloCalls THEN 86400999 ELSE 604799999

\* the satellite count decoder c reads
ObsNSatOf(b, c) ==
    IF c \in ObsGloCalls THEN rtcm_getbitu(b, 52, 5) ELSE rtcm_getbitu(b, 55, 5)

\* the status the header of the buffer determines for decoder c
ObsStatusOf(b, c) ==
    IF NumOf(b) # ObsNumOf(c) THEN RC_MESSAGE_TYPE_MISMATCH
    ELSE IF ObsTowOf(b, c) > ObsTowMax(c) THEN RC_INVALID_MESSAGE
    ELSE RC_OK

ObsOk ==
    call \in ObsCalls /\ rc = RC_OK

(* C7: for each legacy decoder D in {1001, 1002, 1003, 1004, 1010, 1012}   *)
(* and every buffer the status is a function of the header alone:          *)
(* MESSAGE_TYPE_MISMATCH if the message number differs from D, otherwise   *)
(* INVALID_MESSAGE if tow_ms exceeds 604799999 (30-bit GPS TOW) or         *)
(* 86400999 (27-bit GLONASS time), otherwise OK; the mismatch check comes  *)
(* first, and no satellite entry is written on a non-OK return.            *)
C7_LegacyStatusFromHeader ==
    [][call' \in ObsCalls =>
          /\ rc' = ObsStatusOf(buff, call')
          /\ rc' # RC_OK => obs_msg'.sats = obs_msg.sats]_vars

\* a wrong number in front of an epoch time beyond the maximum, a record
\* that held satellites, and a buffer that announces a satellite
C7_Witness ==
    /\ call \in ObsCalls
    /\ rc = RC_MESSAGE_TYPE_MISMATCH
    /\ NumOf(buff) \in {1001, 1002, 1003, 1004, 1010, 1012}
    /\ ObsTowOf(buff, call) > ObsTowMax(call)
    /\ ObsNSatOf(buff, call) > 0
    /\ obs_msg.sats[0] = ObsJunkSat

(* C8: after a legacy decode (1001..1004, 1010, 1012) that returns OK,     *)
(* every frequency observation of every decoded satellite (index below     *)
(* n_sat, L1 and L2) has valid_lock equal to valid_cp, hence               *)
(* valid_cp => valid_lock.                                                 *)
C8_LockFollowsPhase ==
    ObsOk =>
        \A i \in 0..(ObsNSatOf(buff, call) - 1) :
            \A freq \in {L1_FREQ, L2_FREQ} :
                obs_msg.sats[i].obs[freq].flags.valid_lock
                    = obs_msg.sats[i].obs[freq].flags.valid_cp

\* an L1-only decode over a record whose flags held valid_cp without
\* valid_lock on both bands; one satellite's phase invalid, the next valid
C8_Witness ==
    /\ ObsOk
    /\ call \in {"1002", "1010"}
    /\ ObsNSatOf(buff, call) >= 2
    /\ ~obs_msg.sats[0].obs[L1_FREQ].flags.valid_cp
    /\ obs_msg.sats[1].obs[L1_FREQ].flags.valid_cp
    /\ obs_msg.sats[1].obs[L1_FREQ].flags.valid_lock
    /\ ~obs_msg.sats[1].obs[L2_FREQ].flags.valid_cp
    /\ obs_msg.sats[ObsNSatOf(buff, call)] = ObsJunkSat

\* the 5-bit fcn field of satellite i of a 1012 buffer
Fcn1012(b, i) ==
    rtcm_getbitu(b, 61 + 130 * i + 6 + 1, 5)

(* C9: in rtcm3_decode_1012, for every decoded satellite whose 5-bit fcn   *)
(* field is greater than MT1012_GLO_MAX_FCN (20) the L2 observation is not *)
(* marked valid: its valid_cp flag, and the valid_lock flag derived from   *)
(* it, are false whatever the L2 phase field holds.                        *)
C9_GloL2NeedsFcn ==
    (call = "1012" /\ rc = RC_OK) =>
        \A i \in 0..(ObsNSatOf(buff, call) - 1) :
            Fcn1012(buff, i) > 20 =>
                /\ ~obs_msg.sats[i].obs[L2_FREQ].flags.valid_cp
                /\ ~obs_msg.sats[i].obs[L2_FREQ].flags.valid_lock

----------------------------------------------------------------------------
(* What a 1230 buffer holds.                                               *)

\* whether bit m (8, 4, 2 or 1) of the 4-bit mask at offset 28 is set
MaskBit1230(b, m) ==
    (rtcm_getbitu(b, 28, 4) \div m) % 2 = 1

\* the number of biases present before the one of mask bit m
Before1230(b, m) ==
    Cardinality({x \in {8, 4, 2, 1} : x > m /\ MaskBit1230(b, x)})

\* the bias of mask bit m a 1230 buffer determines, in 0.02 m
Cpb1230(b, m) ==
    IF MaskBit1230(b, m)
    THEN rtcm_getbits(b, 32 + 16 * Before1230(b, m), 16)
    ELSE 0

(* C10: for every buffer of message number 1230 and every 4-bit            *)
(* fdma_signal_mask, a bias is read iff its mask bit is set (0x8 L1-CA,    *)
(* 0x4 L1-P, 0x2 L2-CA, 0x1 L2-P); the j-th present bias is the signed     *)
(* 16-bit field at bit 32 + 16 j, in the order L1-CA, L1-P, L2-CA, L2-P,   *)
(* and 32 + 16 popcount(mask) bits are consumed; an absent bias is 0.0;    *)
(* the reserved bits 25..27 affect neither status nor output; the status   *)
(* is OK.                                                                  *)
C10_BiasesFollowMask ==
    (call = "1230" /\ NumOf(buff) = 1230) =>
        /\ rc = RC_OK
        /\ bit = 32 + 16 * Cardinality({m \in {8, 4, 2, 1} : MaskBit1230(buff, m)})
        /\ msg_1230 =
              [stn_id |-> rtcm_getbitu(buff, 12, 12),
               bias_indicator |-> rtcm_getbitu(buff, 24, 1),
               fdma_signal_mask |-> rtcm_getbitu(buff, 28, 4),
               L1_CA_cpb_meter |-> Cpb1230(buff, 8),
               L1_P_cpb_meter |-> Cpb1230(buff, 4),
               L2_CA_cpb_meter |-> Cpb1230(buff, 2),
               L2_P_cpb_meter |-> Cpb1230(buff, 1)]

\* mask 0b1010 with reserved bits set: L1-CA and L2-CA are the fields at
\* bits 32 and 48
C10_Witness ==
    /\ call = "1230"
    /\ rc = RC_OK
    /\ rtcm_getbitu(buff, 28, 4) = 10
    /\ rtcm_getbitu(buff, 25, 3) = 5
    /\ msg_1230.L1_CA_cpb_meter = -32768
    /\ msg_1230.L2_CA_cpb_meter = 32767
    /\ msg_1230.L1_P_cpb_meter = 0
    /\ msg_1230.L2_P_cpb_meter = 0
    /\ bit = 64

(* C11: rtcm3_decode_4062 on a buffer whose message number is 4062 returns *)
(* INVALID_MESSAGE exactly when the reserved bits 12..15 are not all zero; *)
(* on INVALID_MESSAGE and on MESSAGE_TYPE_MISMATCH the record is as it was *)
(* before the call; with the reserved bits zero it returns OK, msg_type,   *)
(* sender_id and len are bits 16..31, 32..47 and 48..55, and data[i] is    *)
(* payload byte 7 + i for every i < len.                                   *)
C11_SwiftReservedBits ==
    [][call' = "4062" =>
        /\ rtcm_getbitu(buff, 0, 12) = 4062 =>
              (rc' = RC_INVALID_MESSAGE <=> rtcm_getbitu(buff, 12, 4) # 0)
        /\ rc' \in {RC_INVALID_MESSAGE, RC_MESSAGE_TYPE_MISMATCH} =>
              msg_4062' = msg_4062
        /\ (rtcm_getbitu(buff, 0, 12) = 4062 /\ rtcm_getbitu(buff, 12, 4) = 0) =>
              /\ rc' = RC_OK
              /\ msg_4062'.msg_type = rtcm_getbitu(buff, 16, 16)
              /\ msg_4062'.sender_id = rtcm_getbitu(buff, 32, 16)
              /\ msg_4062'.len = rtcm_getbitu(buff, 48, 8)
              /\ \A i \in 0..(msg_4062'.len - 1) :
                    msg_4062'.data[i] = rtcm_getbitu(buff, 8 * (7 + i), 8)
    ]_vars

\* reserved bits 0b0010 over a record that held an earlier message
C11_Witness ==
    /\ call = "4062"
    /\ rtcm_getbitu(buff, 0, 12) = 4062
    /\ rtcm_getbitu(buff, 12, 4) = 2
    /\ rc = RC_INVALID_MESSAGE
    /\ msg_4062 = Junk4062

----------------------------------------------------------------------------
(* The strings of a descriptor buffer, read at their offsets.              *)

StrCalls ==
    {"1007", "1008", "1033"}

\* the strings a descriptor message carries
StrCount(c) ==
    CASE c = "1007" -> 1
      [] c = "1008" -> 2
      [] c = "1033" -> 5

StrNames ==
    <<"ant_descriptor", "ant_serial_num", "rcv_descriptor", "rcv_fw_version",
      "rcv_serial_num">>

StrCounters ==
    <<"ant_descriptor_counter", "ant_serial_num_counter",
      "rcv_descriptor_counter", "rcv_fw_version_counter",
      "rcv_serial_num_counter">>

\* the bit of the length byte of string j; the setup id follows string 1
RECURSIVE StrOff(_, _)
StrOff(b, j) ==
    IF j = 1 THEN 24
    ELSE StrOff(b, j - 1) + 8 + 8 * rtcm_getbitu(b, StrOff(b, j - 1), 8)
         + (IF j = 2 THEN 8 ELSE 0)

StrLen(b, j) ==
    rtcm_getbitu(b, StrOff(b, j), 8)

\* the first of k strings that declares more than 31 characters, or 0
StrFirstLong(b, k) ==
    IF \E j \in 1..k : \A l \in 1..j : l = j <=> StrLen(b, l) > 31
    THEN CHOOSE j \in 1..k : \A l \in 1..j : l = j <=> StrLen(b, l) > 31
    ELSE 0

\* the records of the three decoders under the field names of 1033
StrView(c, m7, m8, m33) ==
    CASE c = "1007" -> m7
      [] c = "1008" ->
            [stn_id |-> m8.msg_1007.stn_id,
             ant_descriptor_counter |-> m8.msg_1007.ant_descriptor_counter,
             ant_descriptor |-> m8.msg_1007.ant_descriptor,
             ant_setup_id |-> m8.msg_1007.ant_setup_id,
             ant_serial_num_counter |-> m8.ant_serial_num_counter,
             ant_serial_num |-> m8.ant_serial_num]
      [] c = "1033" -> m33

\* what a string field held when copying began: 1033 has cleared it
StrBefore(c, m7, m8, m33) ==
    IF c = "1033" THEN Zero1033 ELSE StrView(c, m7, m8, m33)

\* string j of record post holds the len characters at bit off of b and,
\* beyond them, what record pre held
StrHolds(b, pre, post, j, off, len) ==
    /\ post[StrCounters[j]] = len
    /\ \A i \in 0..(RTCM_MAX_STRING_LEN - 1) :
          post[StrNames[j]][i] =
              IF i < len THEN rtcm_getbitu(b, off + 8 + 8 * i, 8)
              ELSE pre[StrNames[j]][i]

\* of k strings, those before the first long one (all, if long = 0) are
\* copied and the others, and the setup id behind a long first string, are
\* as in pre
StrCopied(b, pre, post, k, long) ==
    /\ \A j \in 1..k :
          IF long # 0 /\ j >= long
          THEN post[StrNames[j]] = pre[StrNames[j]]
          ELSE StrHolds(b, pre, post, j, StrOff(b, j), StrLen(b, j))
    /\ long = 1 => post.ant_setup_id = pre.ant_setup_id
    /\ long # 1 => post.ant_setup_id = rtcm_getbitu(b, StrOff(b, 2) - 8, 8)

(* C12: rtcm3_decode_1007, _1008 and _1033 on a buffer of their own number *)
(* return INVALID_MESSAGE when a length byte they reach declares more than *)
(* 31 characters, and then copy no byte of that string or of a later       *)
(* field; when every length is at most 31 they return OK and every string  *)
(* holds its declared length and that many bytes of the buffer, in buffer  *)
(* order; no write goes past the end of a string field.                    *)
C12_StringLengths ==
    [][(call' \in StrCalls /\ rc' # RC_MESSAGE_TYPE_MISMATCH) =>
        /\ oob' = {}
        /\ rc' = IF StrFirstLong(buff, StrCount(call')) = 0
                 THEN RC_OK ELSE RC_INVALID_MESSAGE
        /\ StrCopied(buff,
                     StrBefore(call', msg_1007, msg_1008, msg_1033),
                     StrView(call', msg_1007', msg_1008', msg_1033'),
                     StrCount(call'), StrFirstLong(buff, StrCount(call')))
    ]_vars

\* a 1008 whose antenna descriptor declares 32 characters, over a record
\* that held an earlier message
C12_Witness ==
    /\ call = "1008"
    /\ rtcm_getbitu(buff, 0, 12) = 1008
    /\ StrLen(buff, 1) = 32
    /\ rc = RC_INVALID_MESSAGE
    /\ msg_1008.ant_serial_num = JunkString
    /\ msg_1008.msg_1007.ant_descriptor = JunkString

\* a 1033 whose five strings are copied, the fourth of 31 characters
C12_WitnessFull ==
    /\ call = "1033"
    /\ rc = RC_OK
    /\ StrLen(buff, 4) = 31
    /\ msg_1033.rcv_fw_version[30] = StrChar(4, 30)
    /\ msg_1033.rcv_serial_num_counter = 1

(* C13: after rtcm3_decode_1033 on a buffer of number 1033, with status OK *)
(* or INVALID_MESSAGE, every field and every string byte that was not      *)
(* assigned from the buffer is zero, and the record is the same whatever   *)
(* the record held before the call.                                        *)
C13_Zeroed1033 ==
    [][(call' = "1033" /\ rc' # RC_MESSAGE_TYPE_MISMATCH) =>
        /\ msg_1033' = rtcm3_decode_1033(buff, Zero1033).msg
        /\ msg_1033' = rtcm3_decode_1033(buff, Junk1033).msg
        /\ \A j \in 1..5 :
              IF StrFirstLong(buff, 5) # 0 /\ j >= StrFirstLong(buff, 5)
              THEN /\ msg_1033'[StrNames[j]] = Zero1033[StrNames[j]]
                   /\ j > StrFirstLong(buff, 5) => msg_1033'[StrCounters[j]] = 0
              ELSE \A i \in 0..(RTCM_MAX_STRING_LEN - 1) :
                      i >= StrLen(buff, j) => msg_1033'[StrNames[j]][i] = 0
        /\ StrFirstLong(buff, 5) = 1 => msg_1033'.ant_setup_id = 0
    ]_vars

\* a 1033 that fails at its third string: the two strings behind it are
\* zero and the two before it were copied
C13_Witness ==
    /\ call = "1033"
    /\ rc = RC_INVALID_MESSAGE
    /\ StrFirstLong(buff, 5) = 3
    /\ msg_1033.ant_serial_num_counter = 1
    /\ msg_1033.ant_serial_num[0] = StrChar(2, 0)
    /\ msg_1033.rcv_fw_version = Zero1033.rcv_fw_version
    /\ msg_1033.rcv_serial_num = Zero1033.rcv_serial_num

----------------------------------------------------------------------------
(* A failed call and the record it was handed.                             *)

\* what the legacy decoder of call c returns and writes
ObsDecodeOf(c, b, msg) ==
    CASE c = "1001" -> rtcm3_decode_1001(b, msg)
      [] c = "1002" -> rtcm3_decode_1002(b, msg)
      [] c = "1003" -> rtcm3_decode_1003(b, msg)
      [] c = "1004" -> rtcm3_decode_1004(b, msg)
      [] c = "1010" -> rtcm3_decode_1010(b, msg)
      [] c = "1012" -> rtcm3_decode_1012(b, msg)

(* C14: no decoder leaves a partially overwritten record when it returns   *)
(* MESSAGE_TYPE_MISMATCH or INVALID_MESSAGE: after the call the record is  *)
(* what it was before the call, or it was cleared before the first field   *)
(* was written and is what the same call leaves of a zeroed record.        *)
C14_NoPartialOverwrite ==
    [][(call' # "none" /\ rc' \in {RC_MESSAGE_TYPE_MISMATCH, RC_INVALID_MESSAGE}) =>
        \/ UNCHANGED <<msm_msg, obs_msg, msg_1230, msg_4062, str_vars, lock_vars>>
        \/ /\ call' \in ObsCalls
           /\ obs_msg' = ObsDecodeOf(call', buff, ObsZeroMsg).msg
        \/ /\ call' \in MsmCalls
           /\ msm_msg' =
                  rtcm3_decode_msm_internal(buff, MsmTypeOf(call'), MsmZeroMsg).msg
        \/ /\ call' = "1007"
           /\ msg_1007' = rtcm3_decode_1007(buff, Zero1007).msg
        \/ /\ call' = "1008"
           /\ msg_1008' = rtcm3_decode_1008(buff, Zero1008).msg
        \/ /\ call' = "1033"
           /\ msg_1033' = rtcm3_decode_1033(buff, Zero1033).msg
    ]_vars

----------------------------------------------------------------------------
(* The logical content of a record after an OK.                            *)

\* the first n entries of array a
FirstOf(a, n) ==
    [i \in 0..(n - 1) |-> a[i]]

\* the header and the first n_sat satellites, both frequencies of each
ObsContent(msg) ==
    [header |-> msg.header, sats |-> FirstOf(msg.sats, msg.header.n_sat)]

MsmNumSats(msg) ==
    count_mask_values(MSM_SATELLITE_MASK_SIZE, msg.header.satellite_mask)

MsmCellMaskSize(msg) ==
    MsmNumSats(msg) * count_mask_values(MSM_SIGNAL_MASK_SIZE, msg.header.signal_mask)

\* the header with the cell mask bits of its satellites and signals, the
\* first num_sats satellite rows and the first num_cells cells
MsmContent(msg) ==
    [header |-> [msg.header EXCEPT
                    !.cell_mask = FirstOf(msg.header.cell_mask, MsmCellMaskSize(msg))],
     sats |-> FirstOf(msg.sats, MsmNumSats(msg)),
     signals |-> FirstOf(msg.signals,
                         count_mask_values(MsmCellMaskSize(msg), msg.header.cell_mask))]

\* the scalars, and every string up to its declared length
StrContent(c, view) ==
    [f \in DOMAIN view |->
        IF \E j \in 1..StrCount(c) : f = StrNames[j]
        THEN FirstOf(view[f],
                     view[StrCounters[CHOOSE j \in 1..StrCount(c) : f = StrNames[j]]])
        ELSE view[f]]

SwiftContent(msg) ==
    [msg EXCEPT !.data = FirstOf(msg.data, msg.len)]

(* C15: decoders retain no state between calls that reuse one record: the  *)
(* status of a call is the status of the same call on a freshly zeroed     *)
(* record, and after an OK the logical content of the record (header, the  *)
(* first n_sat satellites with both frequency observations, the first      *)
(* num_sats rows and num_cells cells of an MSM, strings up to their        *)
(* declared length, all scalars) is the content the same call leaves in a  *)
(* freshly zeroed record.                                                  *)
C15_Stateless ==
    [][call' # "none" =>
        /\ call' \in ObsCalls =>
              /\ rc' = ObsDecodeOf(call', buff, ObsZeroMsg).rc
              /\ rc' = RC_OK =>
                    ObsContent(obs_msg')
                        = ObsContent(ObsDecodeOf(call', buff, ObsZeroMsg).msg)
        /\ call' \in MsmCalls =>
              /\ rc' = rtcm3_decode_msm_internal(buff, MsmTypeOf(call'), MsmZeroMsg).rc
              /\ rc' = RC_OK =>
                    MsmContent(msm_msg')
                        = MsmContent(rtcm3_decode_msm_internal(
                                         buff, MsmTypeOf(call'), MsmZeroMsg).msg)
        /\ call' = "1230" =>
              /\ rc' = rtcm3_decode_1230(buff, Zero1230).rc
              /\ rc' = RC_OK => msg_1230' = rtcm3_decode_1230(buff, Zero1230).msg
        /\ call' = "4062" =>
              /\ rc' = rtcm3_decode_4062(buff, Zero4062).rc
              /\ rc' = RC_OK =>
                    SwiftContent(msg_4062')
                        = SwiftContent(rtcm3_decode_4062(buff, Zero4062).msg)
        /\ call' \in StrCalls =>
              /\ rc' = CASE call' = "1007" -> rtcm3_decode_1007(buff, Zero1007).rc
                         [] call' = "1008" -> rtcm3_decode_1008(buff, Zero1008).rc
                         [] call' = "1033" -> rtcm3_decode_1033(buff, Zero1033).rc
              /\ rc' = RC_OK =>
                    StrContent(call', StrView(call', msg_1007', msg_1008', msg_1033'))
                        = StrContent(call',
                              StrView(call',
                                      rtcm3_decode_1007(buff, Zero1007).msg,
                                      rtcm3_decode_1008(buff, Zero1008).msg,
                                      rtcm3_decode_1033(buff, Zero1033).msg))
    ]_vars

----------------------------------------------------------------------------
(* The lock time tables of RTCM 10403.3.                                   *)

LockBlockCalls ==
    {"decode_basic_gps_l1_freq_data", "decode_basic_glo_l1_freq_data",
     "decode_basic_l2_freq_data"}

\* what the segments of Table 3.4-2 subtract
LockOffsets ==
    <<0, 24, 120, 408, 1176, 3096>>

(* C16: for every lock indicator L in 0..127, from_lock_ind(L) is L,       *)
(* 2L-24, 4L-120, 8L-408, 16L-1176, 32L-3096 for L below 24, 48, 72, 96,   *)
(* 120, 127, it does not decrease from L to L+1, it never exceeds 937 and  *)
(* is 937 exactly at L = 127; and the lock field a legacy L1 or L2 block   *)
(* stores is from_lock_ind of its 7-bit indicator.                         *)
C16_LockIndicator ==
    /\ (call = "from_lock_ind" /\ lock_ind <= 127) =>
          /\ lock_ind < 127 =>
                lock_time = Pow2(lock_ind \div 24) * lock_ind
                            - LockOffsets[lock_ind \div 24 + 1]
          /\ lock_ind < 127 => lock_time <= from_lock_ind(lock_ind + 1)
          /\ lock_time <= 937
          /\ lock_time = 937 <=> lock_ind = 127
    /\ call \in LockBlockCalls =>
          /\ lock_ind = rtcm_getbitu(buff, LockBit, 7)
          /\ lock_time = from_lock_ind(lock_ind)
          /\ lock_time <= 937

\* indicator 126, the last before saturation
C16_Witness ==
    /\ call = "from_lock_ind"
    /\ lock_ind = 126
    /\ lock_time = 936

\* an L2 block with indicator 127
C16_WitnessBlock ==
    /\ call = "decode_basic_l2_freq_data"
    /\ lock_ind = 127
    /\ lock_time = 937

(* C17: for every 8-bit input, rtcm3_decode_lock_time is the result for    *)
(* the low nibble L of the input: 0 for L = 0, else 32 * 2^(L-1) ms (that  *)
(* over 1000, in seconds), 524288 ms for L = 15, strictly increasing over  *)
(* L = 1..15, and the shifted value is below 2^31.                         *)
C17_LockTimeNibble ==
    call = "rtcm3_decode_lock_time" =>
        /\ lock_time = rtcm3_decode_lock_time(lock_ind % 16)
        /\ lock_ind % 16 = 0 => lock_time = 0
        /\ lock_ind % 16 # 0 => lock_time = 32 * Pow2((lock_ind % 16) - 1)
        /\ lock_ind % 16 = 15 => lock_time = 524288
        /\ lock_ind % 16 \in 1..14 =>
              lock_time < rtcm3_decode_lock_time((lock_ind % 16) + 1)
        /\ lock_time <= Pow2(30)

\* input 0xFF: the MSB nibble is discarded
C17_Witness ==
    /\ call = "rtcm3_decode_lock_time"
    /\ lock_ind = 255
    /\ lock_time = 524288

(* C18: for every 10-bit indicator in 0..1023, from_msm_lock_ind_ext is    *)
(* 67108864 ms exactly when the indicator is at least 704 and less below   *)
(* 704, does not decrease from an indicator to the next, the segment of an *)
(* indicator in 64..703 has the multiplier 2, 4, ..., 1048576, and its     *)
(* product and difference are within 0..2^31-1.                            *)
C18_ExtendedLock ==
    call = "from_msm_lock_ind_ext" =>
        /\ lock_time = 67108864 <=> lock_ind >= 704
        /\ lock_time <= 67108864
        /\ lock_ind < 1023 => lock_time <= from_msm_lock_ind_ext(lock_ind + 1)
        /\ lock_ind \in 64..703 =>
              /\ msm_lock_ind_ext_segment(lock_ind).mul
                    = Pow2((lock_ind - 64) \div 32 + 1)
              /\ msm_lock_ind_ext_segment(lock_ind).mul * lock_ind <= 2147483647
              /\ msm_lock_ind_ext_segment(lock_ind).mul * lock_ind
                    >= msm_lock_ind_ext_segment(lock_ind).sub
              /\ lock_time = msm_lock_ind_ext_segment(lock_ind).mul * lock_ind
                             - msm_lock_ind_ext_segment(lock_ind).sub

\* the last indicator below saturation
C18_Witness ==
    /\ call = "from_msm_lock_ind_ext"
    /\ lock_ind = 703
    /\ lock_time = 66060288

\* the first saturated indicator
C18_WitnessSaturated ==
    /\ call = "from_msm_lock_ind_ext"
    /\ lock_ind = 704
    /\ lock_time = 67108864

----------------------------------------------------------------------------
(* The satellite info of an MSM.                                           *)

\* the 4-bit sat_info of satellite row sat of an MSM5 or MSM7 buffer: it
\* follows the cell mask and the 8-bit range of every row
MsmSatInfo(b, sat) ==
    rtcm_getbitu(b, 169 + PopSat(b) * PopSig(b) + 8 * PopSat(b) + 4 * sat, 4)

(* C19: after an MSM decode that returns OK, for every satellite row: in   *)
(* an MSM5 or MSM7 of any constellation glo_fcn is the 4-bit sat_info as   *)
(* received, 0xF included and with no offset applied; in a GLONASS MSM4 or *)
(* MSM6 it is MSM_GLO_FCN_UNKNOWN; in an MSM4 or MSM6 of another           *)
(* constellation it is 0.                                                  *)
C19_GloFcn ==
    MsmOk =>
        \A sat \in 0..(PopSat(buff) - 1) :
            msm_msg.sats[sat].glo_fcn =
                IF MsmTypeOf(call) \in {MSM5, MSM7} THEN MsmSatInfo(buff, sat)
                ELSE IF IsGloNum(NumOf(buff)) THEN MSM_GLO_FCN_UNKNOWN
                ELSE 0

\* a GLONASS MSM5 whose first satellite has sat_info 0xF
C19_Witness ==
    /\ MsmOk
    /\ call = "msm5"
    /\ IsGloNum(NumOf(buff))
    /\ PopSat(buff) >= 2
    /\ MsmSatInfo(buff, 0) = 15
    /\ msm_msg.sats[0].glo_fcn = 15

\* a GLONASS MSM4: no sat_info on the wire
C19_WitnessUnknown ==
    /\ MsmOk
    /\ call = "msm4"
    /\ IsGloNum(NumOf(buff))
    /\ PopSat(buff) >= 1
    /\ msm_msg.sats[0].glo_fcn = MSM_GLO_FCN_UNKNOWN

\* a GPS MSM6: no sat_info on the wire
C19_WitnessZero ==
    /\ MsmOk
    /\ call = "msm6"
    /\ NumOf(buff) = 1076
    /\ PopSat(buff) >= 1
    /\ msm_msg.sats[0].glo_fcn = 0

----------------------------------------------------------------------------
(* The satellite records of the legacy messages, with a GLONASS ambiguity  *)
(* of g bits.                                                              *)

ObsExtCalls ==
    {"1002", "1004", "1010", "1012"}

ObsL2Calls ==
    {"1003", "1004", "1012"}

\* the header of decoder c
ObsHeaderBits(c) ==
    IF c \in ObsGloCalls THEN 61 ELSE 64

\* the L1 block with the satellite id: id, code, (fcn,) pr, phr_pr_diff, lock
ObsL1Bits(c) ==
    IF c \in ObsGloCalls THEN 6 + 1 + 5 + 25 + 20 + 7 ELSE 6 + 1 + 24 + 20 + 7

ObsAmbBits(c, g) ==
    IF c \in ObsGloCalls THEN g ELSE 8

\* where the L2 block begins in a satellite record
ObsL2Off(c, g) ==
    ObsL1Bits(c) + (IF c \in ObsExtCalls THEN ObsAmbBits(c, g) + 8 ELSE 0)

\* the satellite record: W
ObsSatWidth(c, g) ==
    ObsL2Off(c, g)
    + (IF c \in ObsL2Calls THEN 2 + 14 + 20 + 7 ELSE 0)
    + (IF c \in ObsL2Calls /\ c \in ObsExtCalls THEN 8 ELSE 0)

\* satellite record sat of decoder c holds the fields of buffer b at B
ObsSatReadAt(b, c, g, sat, B) ==
    /\ sat.svId = rtcm_getbitu(b, B, 6)
    /\ sat.obs[L1_FREQ].code = rtcm_getbitu(b, B + 6, 1)
    /\ c \in ObsGloCalls => sat.fcn = rtcm_getbitu(b, B + 7, 5)
    /\ sat.obs[L1_FREQ].pseudorange.pr =
          IF c \in ObsGloCalls THEN rtcm_getbitu(b, B + 12, 25)
          ELSE rtcm_getbitu(b, B + 7, 24)
    /\ sat.obs[L1_FREQ].lock =
          from_lock_ind(rtcm_getbitu(b, B + ObsL1Bits(c) - 7, 7))
    /\ c \in ObsExtCalls =>
          /\ sat.obs[L1_FREQ].pseudorange.amb =
                rtcm_getbitu(b, B + ObsL1Bits(c), ObsAmbBits(c, g))
                * (IF c \in ObsGloCalls THEN PRUNIT_GLO ELSE PRUNIT_GPS)
          /\ sat.obs[L1_FREQ].flags.valid_cnr =
                (rtcm_getbitu(b, B + ObsL1Bits(c) + ObsAmbBits(c, g), 8) # 0)
          /\ sat.obs[L1_FREQ].flags.valid_cnr =>
                sat.obs[L1_FREQ].cnr =
                    rtcm_getbitu(b, B + ObsL1Bits(c) + ObsAmbBits(c, g), 8)
    /\ c \in ObsL2Calls =>
          /\ sat.obs[L2_FREQ].code = rtcm_getbitu(b, B + ObsL2Off(c, g), 2)
          /\ sat.obs[L2_FREQ].lock =
                from_lock_ind(rtcm_getbitu(b, B + ObsL2Off(c, g) + 36, 7))
          /\ c \in ObsExtCalls =>
                /\ sat.obs[L2_FREQ].flags.valid_cnr =
                      (rtcm_getbitu(b, B + ObsL2Off(c, g) + 43, 8) # 0)
                /\ sat.obs[L2_FREQ].flags.valid_cnr =>
                      sat.obs[L2_FREQ].cnr =
                          rtcm_getbitu(b, B + ObsL2Off(c, g) + 43, 8)

\* after an OK every decoded satellite i was read at H + i * W
ObsLaidOut(g) ==
    ObsOk =>
        \A i \in 0..(ObsNSatOf(buff, call) - 1) :
            ObsSatReadAt(buff, call, g, obs_msg.sats[i],
                         ObsHeaderBits(call) + i * ObsSatWidth(call, g))

\* W of the six messages with a GLONASS ambiguity of g bits
ObsWidths(g) ==
    [c \in ObsCalls |-> ObsSatWidth(c, g)]

(* C20 as amended: in every legacy observation decoder satellite i starts  *)
(* at bit H + i*W, H = 64 for the GPS header and 61 for the GLONASS        *)
(* header, amb is 8 bits wide in 1002 and 1004 and 7 bits wide in 1010 and *)
(* 1012, followed by an 8-bit cnr, W = 58 (1001), 74 (1002), 101 (1003),   *)
(* 125 (1004), 79 (1010), 130 (1012), and every field of satellite i is    *)
(* read at the offset this layout implies.                                 *)
C20_LegacyLayout ==
    /\ ObsLaidOut(7)
    /\ ObsWidths(7) = [c \in ObsCalls |->
                          CASE c = "1001" -> 58 [] c = "1002" -> 74
                            [] c = "1003" -> 101 [] c = "1004" -> 125
                            [] c = "1010" -> 79 [] c = "1012" -> 130]

\* a 1012 with two satellites: the second begins at bit 61 + 130
C20_Witness ==
    /\ ObsOk
    /\ call = "1012"
    /\ ObsNSatOf(buff, call) >= 2
    /\ obs_msg.sats[1].svId = rtcm_getbitu(buff, 61 + 130, 6)
    /\ obs_msg.sats[1].svId # rtcm_getbitu(buff, 61 + 131, 6)
    /\ obs_msg.sats[0].obs[L1_FREQ].pseudorange.amb
          = rtcm_getbitu(buff, 61 + 64, 7) * PRUNIT_GLO
    /\ obs_msg.sats[0].obs[L1_FREQ].flags.valid_cnr

(* C20: in every legacy observation decoder satellite i starts at bit      *)
(* H + i*W, H = 64 for the GPS header and 61 for the GLONASS header, amb   *)
(* is 8 bits wide followed by an 8-bit cnr in all four extended messages   *)
(* (1002, 1004, 1010, 1012), W = 58 (1001), 74 (1002), 101 (1003),         *)
(* 125 (1004), 80 (1010), 131 (1012), and every field of satellite i is    *)
(* read at the offset this layout implies.                                 *)
C20_LegacyLayoutAmb8 ==
    /\ ObsLaidOut(8)
    /\ ObsWidths(8) = [c \in ObsCalls |->
                          CASE c = "1001" -> 58 [] c = "1002" -> 74
                            [] c = "1003" -> 101 [] c = "1004" -> 125
                            [] c = "1010" -> 80 [] c = "1012" -> 131]

----------------------------------------------------------------------------
(* C21: reading an MSM header never writes outside the 64-entry cell mask: *)
(* for every buffer passed to rtcm3_decode_msm4/5/6/7, those later         *)
(* rejected with INVALID_MESSAGE included, every index at which cell_mask  *)
(* is written is below MSM_MAX_CELLS.  oob holds the indices from          *)
(* MSM_MAX_CELLS on that the header read's loop wrote; the loop runs over  *)
(* the 8-bit truncation of popcount(satellite_mask) * popcount(signal_mask).*)
C21_CellMaskInBounds ==
    call \in MsmCalls =>
        /\ \A i \in oob : i < MSM_MAX_CELLS
        /\ (rc # RC_MESSAGE_TYPE_MISMATCH =>
                bit >= 169 + U8(PopSat(buff) * PopSig(buff)))

----------------------------------------------------------------------------
(* C22: in an MSM decode that returns OK with N = num_sats, X = num_sats * *)
(* num_sigs and C = num_cells the wire layout is field-major.  The header  *)
(* occupies 169 + X bits for every constellation (the 3 skipped bits and   *)
(* the 27-bit time of GLONASS take the place of the 30-bit tow of the      *)
(* others); the satellite block holds all N 8-bit integer_ms, then (MSM5   *)
(* and MSM7) all N 4-bit sat_info, then all N 10-bit rough_mod, then (MSM5 *)
(* and MSM7) all N 14-bit rough rates; the signal block holds all C values *)
(* of each field in turn.  The bits consumed are 169 + X + 18N + 48C       *)
(* (MSM4), + 36N + 63C (MSM5), + 18N + 65C (MSM6), + 36N + 80C (MSM7),     *)
(* never more than 8184 and never wrapping the 16-bit cursor.              *)
C22_FieldMajorLayout ==
    MsmOk =>
        LET t == MsmTypeOf(call)
            N == PopSat(buff)
            G == PopSig(buff)
            X == N * G
            cs == CellSet(buff)
            C == Cardinality(cs)
            rate == t \in {MSM5, MSM7}
            sb == 169 + X
            h == msm_msg.header
        IN  /\ IsGloNum(NumOf(buff)) => h.tow_ms = rtcm_getbitu(buff, 27, 27)
            /\ (~IsGloNum(NumOf(buff)) /\ ~IsBdsNum(NumOf(buff))) =>
                    h.tow_ms = rtcm_getbitu(buff, 24, 30)
            /\ h.multiple = rtcm_getbitu(buff, 54, 1)
            /\ h.iods = rtcm_getbitu(buff, 55, 3)
            /\ h.reserved = rtcm_getbitu(buff, 58, 7)
            /\ h.steering = rtcm_getbitu(buff, 65, 2)
            /\ h.ext_clock = rtcm_getbitu(buff, 67, 2)
            /\ h.div_free = rtcm_getbitu(buff, 69, 1)
            /\ h.smooth = rtcm_getbitu(buff, 70, 3)
            /\ \A i \in 0..63 : h.satellite_mask[i] = getbit(buff, 73 + i)
            /\ \A i \in 0..31 : h.signal_mask[i] = getbit(buff, 137 + i)
            /\ \A i \in 0..(X - 1) : h.cell_mask[i] = getbit(buff, 169 + i)
            /\ \A s \in 0..(N - 1) :
                 LET integer_ms == rtcm_getbitu(buff, sb + 8 * s, 8)
                     rough_mod ==
                         rtcm_getbitu(buff, sb + (IF rate THEN 12 ELSE 8) * N + 10 * s, 10)
                     e == msm_msg.sats[s]
                 IN  /\ integer_ms # 255 =>
                            e.rough_range_ms = 1024 * integer_ms + rough_mod
                     /\ rate => e.glo_fcn = rtcm_getbitu(buff, sb + 8 * N + 4 * s, 4)
                     /\ rate => e.rough_range_rate_m_s =
                                    rtcm_getbits(buff, sb + 22 * N + 14 * s, 14)
            /\ \A j \in cs :
                 LET k == CellRank(cs, j)
                     raw == CellRaw(t, N, G, cs, j)
                     e == msm_msg.signals[k]
                 IN  /\ e.flags.valid_pr => e.pseudorange_ms.fine = raw.fine_pr
                     /\ e.flags.valid_cp => e.carrier_phase_ms.fine = raw.fine_cp
                     /\ e.lock_time_s =
                           (IF t \in {MSM6, MSM7}
                            THEN from_msm_lock_ind_ext(raw.lock)
                            ELSE rtcm3_decode_lock_time(raw.lock))
                     /\ e.hca_indicator = (raw.hca = 1)
                     /\ e.flags.valid_cnr = (raw.cnr # 0)
                     /\ (rate /\ e.flags.valid_dop) =>
                           e.range_rate_m_s = 10000 * raw.rough_rate + raw.fine_rate
            /\ bit = 169 + X + MsmBlockBits(t, N, C)
            /\ bit <= 8184
            /\ bit < 65536

\* the longest message: an MSM7 of 64 satellites, one signal and 64 cells
C22_Witness ==
    /\ MsmOk
    /\ call = "msm7"
    /\ PopSat(buff) = 64
    /\ Cardinality(CellSet(buff)) = 64
    /\ bit = 169 + 64 + 36 * 64 + 80 * 64

\* a GLONASS MSM5 of several satellites and more cells than satellites
C22_WitnessGlo ==
    /\ MsmOk
    /\ call = "msm5"
    /\ IsGloNum(NumOf(buff))
    /\ PopSat(buff) >= 2
    /\ Cardinality(CellSet(buff)) > PopSat(buff)
    /\ msm_msg.sats[1].rough_range_ms # msm_msg.sats[0].rough_range_ms

----------------------------------------------------------------------------
\* the 8-bit raw CNR of band freq of satellite i in the buffer of decoder c
ObsCnrRaw(b, c, i, freq) ==
    LET B == ObsHeaderBits(c) + i * ObsSatWidth(c, 7)
    IN  IF freq = L1_FREQ
        THEN rtcm_getbitu(b, B + ObsL1Bits(c) + ObsAmbBits(c, 7), 8)
        ELSE rtcm_getbitu(b, B + ObsL2Off(c, 7) + 43, 8)

\* the bands decoder c reads a CNR for
ObsCnrBands(c) ==
    IF c \notin ObsExtCalls THEN {}
    ELSE IF c \in ObsL2Calls THEN {L1_FREQ, L2_FREQ}
    ELSE {L1_FREQ}

(* C23: after any legacy decode that returns OK, for every decoded         *)
(* satellite (index < n_sat) and whatever the record held before the call: *)
(* in the L1-only messages 1001, 1002 and 1010 every L2 validity flag is   *)
(* false; in the non-extended messages 1001 and 1003 valid_cnr is false on *)
(* every band; valid_dop is false on every band of every legacy message;   *)
(* in extended messages valid_cnr of a band is true iff its 8-bit raw CNR  *)
(* is non-zero.  Satellite entries with index >= n_sat are left unchanged. *)
C23_LegacyFlags ==
    [][(call' \in ObsCalls /\ rc' = RC_OK) =>
        LET c == call'
            n == obs_msg'.header.n_sat
        IN  /\ n = ObsNSatOf(buff, c)
            /\ \A i \in 0..(n - 1) :
                 LET e == obs_msg'.sats[i]
                 IN  /\ c \notin ObsL2Calls => e.obs[L2_FREQ].flags = ZeroFlags
                     /\ c \notin ObsExtCalls =>
                           \A freq \in {L1_FREQ, L2_FREQ} :
                               ~e.obs[freq].flags.valid_cnr
                     /\ \A freq \in {L1_FREQ, L2_FREQ} :
                           ~e.obs[freq].flags.valid_dop
                     /\ \A freq \in ObsCnrBands(c) :
                           e.obs[freq].flags.valid_cnr
                               = (ObsCnrRaw(buff, c, i, freq) # 0)
            /\ \A i \in DOMAIN obs_msg.sats :
                 i >= n => obs_msg'.sats[i] = obs_msg.sats[i]]_vars

\* an L1-only extended decode over a record whose flags were all set but
\* valid_lock: one satellite with a zero CNR, one with a non-zero CNR
C23_Witness ==
    /\ ObsOk
    /\ call \in {"1002", "1010"}
    /\ ObsNSatOf(buff, call) >= 2
    /\ \E i, j \in 0..(ObsNSatOf(buff, call) - 1) :
          /\ ObsCnrRaw(buff, call, i, L1_FREQ) = 0
          /\ ~obs_msg.sats[i].obs[L1_FREQ].flags.valid_cnr
          /\ obs_msg.sats[i].obs[L1_FREQ].cnr = ObsJunkFreq.cnr
          /\ ObsCnrRaw(buff, call, j, L1_FREQ) # 0
          /\ obs_msg.sats[j].obs[L1_FREQ].flags.valid_cnr
          /\ obs_msg.sats[j].obs[L2_FREQ].flags = ZeroFlags
          /\ obs_msg.sats[j].obs[L2_FREQ].cnr = ObsJunkFreq.cnr
    /\ obs_msg.sats[ObsNSatOf(buff, call)] = ObsJunkSat

\* a non-extended two-band decode over such a record
C23_WitnessNoCnr ==
    /\ ObsOk
    /\ call = "1003"
    /\ ObsNSatOf(buff, call) >= 1
    /\ obs_msg.sats[0].obs[L2_FREQ].flags.valid_pr
    /\ ~obs_msg.sats[0].obs[L2_FREQ].flags.valid_cnr
    /\ obs_msg.sats[0].obs[L2_FREQ].cnr = ObsJunkFreq.cnr
    /\ obs_msg.sats[ObsNSatOf(buff, call)] = ObsJunkSat

\* a two-band extended decode whose bands differ in valid_cnr
C23_WitnessL2Cnr ==
    /\ ObsOk
    /\ call \in {"1004", "1012"}
    /\ \E i \in 0..(ObsNSatOf(buff, call) - 1) :
          obs_msg.sats[i].obs[L1_FREQ].flags.valid_cnr
              # obs_msg.sats[i].obs[L2_FREQ].flags.valid_cnr
====
